---- MODULE Spec2Model ----
(***************************************************************************)
(* State-machine model of the position lifecycle engine of pyscanstr:      *)
(*   - pair_trader.py : slots, slot budgets, process_slot, _close_slot and *)
(*                      the operator commands (cmd_trade, cmd_cancel, ...) *)
(*   - live_trader.py : live positions, manage_positions, process_dca_step,*)
(*                      sell_token, check_exit_conditions, sync_positions  *)
(*                                                                         *)
(* Numbers.  The source computes with Python floats; the model computes    *)
(* with exact integers and rationals:                                      *)
(*   prices        integer price ticks, 10000 ticks = "1.00"               *)
(*   SOL amounts   integer SOL units (1 unit = 0.0004 SOL)                 *)
(*   dip triggers  tenths of a percent (100 = 10.0%)                       *)
(*   PnL           whole percent (floor) while a slot is open, basis       *)
(*                 points (floor) for a closed trade                       *)
(*   market cap    thousands of USD                                        *)
(* The running average price is an exact rational [n, d].                  *)
(***************************************************************************)
EXTENDS Integers, Sequences, FiniteSets, TLC

VARIABLES
    mode,           \* which program runs: "pair" (pair_trader.py), "live" (live_trader.py)
    market,         \* the world of the run: prices per token, failures, outside operations
    \* pair_trader.py
    slotsFile,      \* pair_slots.json   : slot_id -> PairSlot
    budgetsFile,    \* slot_budgets.json : slot_id -> SlotBudget
    BUDGETS_CACHE,  \* _BUDGETS_CACHE    : slot_id -> SlotBudget
    pairHistory,    \* pair_history.json : token -> sequence of trade records
    walletTok,      \* on-chain token balance of the wallet, per token: 0, or 1 = some
    closeLog,       \* per slot: the profits of the closes since the budgets were initialised
    ev,             \* what the last step did to each slot (observation only)
    loop,           \* the iteration of run_pair_trader in progress, when its steps are taken one by one; loop.stops counts the stops of the process; in the live trader, the pass of manage_positions in progress
    \* live_trader.py
    positionsFile,  \* live_positions.json : sequence of LivePosition
    liveWallet,     \* on-chain token balance of the wallet, per token (raw amount)
    tracker,        \* _TRACKED_SIGNALS : token -> TrackedSignal
    session,        \* session stats: buys, sells, wins, losses
    settleLog,      \* the entries (tx_hash of the buy) update_session_sell was called for, in order
    now,            \* the clock, minutes
    lev,            \* what the last step did to each position (observation only)
    \* check_exit_conditions on its own
    exitIn,         \* the arguments
    exitOut         \* the result ("" = not evaluated yet)

pairVars == <<slotsFile, budgetsFile, BUDGETS_CACHE, pairHistory, walletTok, closeLog, ev, loop>>
liveVars == <<positionsFile, liveWallet, tracker, session, settleLog, now, lev>>
exitVars == <<exitIn, exitOut>>
vars == <<mode, market, pairVars, liveVars, exitVars>>

-----------------------------------------------------------------------------
(* Bounds and input domains *)

\* a token is traded at most this many times (bounds pair_history and trade_count)
MaxTrades == 2

\* the scanner signals a token at most this many times while it is tracked
MaxSignals == 2

\* buys of the live trader in one run
MaxBuys == 5

\* times a process stops and is started again in one run
MaxStops == 1

\* the list with the elements f[1], ..., f[n]
ListOf(f, n) == SubSeq(f, 1, n)

Slots == {1, 2}
LastSlot == CHOOSE i \in Slots : \A j \in Slots : j <= i
Tokens == {"A", "B", "C", "D", "E"}

\* market cap reported for each token (thousands of USD): one small-cap, the others large-cap
McOf(tok) == IF tok = "A" THEN 400 ELSE 20000

\* trading activity of a token: 5-minute volume, buys and sells
CalmFlow == [vol_5m |-> 1000, buys_5m |-> 10, sells_5m |-> 10]
DumpFlow == [vol_5m |-> 100, buys_5m |-> 10, sells_5m |-> 30]

\* A world is what a run is checked in: the prices the lookups can report for
\* each token, the failures of the network ("net" for the pair trader; "lookup",
\* "quote", "swap", "late", "dust", "balance" for the live trader and "short" for
\* its wallet running short of SOL; "noprice" and "thin" for signals without a
\* price and with little liquidity), the operations that
\* reach the trader from outside, the times of the clock, the tokens the live
\* trader holds OPEN positions of when it starts, the tokens the scanner
\* signals, the trading activity and the buy ratios it reports.
World(pricesA, pricesB, pricesC, faults, ops, times, held, signals, flows, ratios) ==
    [prices |-> [t \in Tokens |-> IF t = "A" THEN pricesA ELSE IF t = "B" THEN pricesB ELSE pricesC],
     faults |-> faults, ops |-> ops, times |-> times, held |-> held, signals |-> signals,
     flows |-> flows, ratios |-> ratios]

PairWorld(pricesA, pricesB, faults, ops) ==
    World(pricesA, pricesB, {}, faults, ops, {0}, <<>>, {}, {CalmFlow}, {})

\* the worlds of the pair trader
\*   1: rise then dip        (1.00, 1.20, 1.10, 1.08)
\*   2: falling after entry  (1.20, 1.00, 0.80, 0.60)
\*   3: rise after entry     (1.00, 1.13, 1.09, 1.08)
\*   4: two tokens, on a network without failures
\*   5: budget resets
\*   6: a slow fall after entry, on a network without failures
\*                              (1.20, 1.00, 0.90, 0.80, 0.60)
Markets ==
    { PairWorld({10000, 12000, 11000, 10800}, {}, {"net"}, {}),
      PairWorld({12000, 10000, 8000, 6000}, {}, {"net"}, {}),
      PairWorld({10000, 11300, 10900, 10800}, {}, {"net"}, {}),
      PairWorld({10000, 12000}, {9500, 10000}, {}, {}),
      PairWorld({10000, 12000}, {}, {"net"}, {"resetbudget"}),
      PairWorld({12000, 10000, 9000, 8000, 6000}, {}, {}, {}) }

\* the worlds of the live trader
\*   1: one token is signalled, bought, averaged down, sold and signalled again;
\*      swaps can fail; the operator runs the sync
\*   2: three positions are held, one rising, one rising and falling back to its
\*      entry, one whose tokens can leave the wallet; a sell can leave a remainder
\*   3: one position is held; its tokens can leave the wallet, lookups of the
\*      metrics and of the balance can fail, a sell can land late, the operator
\*      runs the sync
\*   4: as 1 on a network without failures, with a wallet that runs short of SOL
LiveMarkets ==
    { World({10000, 8800, 7200}, {}, {}, {"swap"}, {"sync"}, {0},
            <<>>, {"A"}, {CalmFlow}, {20}),
      World({10000, 11000}, {10000, 12000}, {10000}, {"dust"}, {"external"}, {0},
            <<"A", "B", "C">>, {}, {CalmFlow}, {}),
      World({10000}, {}, {}, {"lookup", "late", "balance"}, {"external", "sync"}, {0, 1500},
            <<"A">>, {}, {CalmFlow}, {}),
      World({10000, 8800, 7200}, {}, {}, {"short"}, {}, {0},
            <<>>, {"A"}, {CalmFlow}, {20}) }

\* the worlds process_signal is checked in
\*   1: one token is signalled at 1.00 and 0.88, with a strong or a weak buy ratio,
\*      with much or little liquidity, with or without a price, now, after 10
\*      minutes and after an hour; what it buys is managed and sold
\*   2: four positions are held when a fifth token is signalled
SignalMarkets ==
    { World({10000, 8800}, {}, {}, {"noprice", "thin"}, {}, {0, 10, 60},
            <<>>, {"A"}, {CalmFlow}, {10, 20}),
      World({10000, 8800}, {10000}, {10000}, {}, {}, {0},
            <<"B", "C", "D", "E">>, {"A"}, {CalmFlow}, {20}) }

PriceOf(tok) == market.prices[tok]

\* per-slot budget computed by init_budgets from the wallet's SOL balance
StartPerSlot == {100}
PerSlotChoices == {10}

\* SOL a landed sell returns, in percent of the capital invested
RecvPcts == {0, 200}

-----------------------------------------------------------------------------
(* Constants of pair_trader.py *)

DCA_SPLITS == <<15, 25, 60>>
MIN_TRADE_SOL == 5

MinOf(S) == CHOOSE i \in S : \A j \in S : i <= j
Max(a, b) == IF a >= b THEN a ELSE b
Min(a, b) == IF a <= b THEN a ELSE b

RECURSIVE GCD(_, _)
GCD(a, b) == IF b = 0 THEN a ELSE GCD(b, a % b)

\* the rational n/d in lowest terms (d > 0, n >= 0)
Rat(n, d) == LET g == GCD(n, d) IN
             IF g = 0 THEN [n |-> 0, d |-> 1] ELSE [n |-> n \div g, d |-> d \div g]

RECURSIVE SumSeq(_)
SumSeq(s) == IF s = <<>> THEN 0 ELSE Head(s) + SumSeq(Tail(s))

\* entry dip, in tenths of a percent
get_entry_dip(mc) ==
    IF mc < 500 THEN 100
    ELSE IF mc < 2000 THEN 70
    ELSE IF mc < 10000 THEN 50
    ELSE 30

\* step-2 and step-3 drop, percent from the step-1 entry price
get_dca_drops(mc) ==
    IF mc < 500 THEN <<15, 35>>
    ELSE IF mc < 2000 THEN <<10, 25>>
    ELSE IF mc < 10000 THEN <<7, 18>>
    ELSE <<5, 12>>

\* (activate_pct, trail_pct)
get_trail_params(mc) == <<12, 4>>

EmptySlot ==
    [status |-> "empty", token_address |-> "", entry_mc |-> 0,
     watch_price |-> 0, entry_dip_pct |-> 0,
     dca_step |-> 0, entry_price |-> 0, step2_price |-> 0, step3_price |-> 0,
     dca_avg_price |-> [n |-> 0, d |-> 1],
     total_sol_invested |-> 0, step1_sol |-> 0, step2_sol |-> 0, step3_sol |-> 0,
     token_amount |-> 0, max_pnl_pct |-> 0, trail_active |-> FALSE, peak_price |-> 0]

\* _reset_slot: every trade field back to its default (slot_id is the index)
_reset_slot(slot) == EmptySlot

SlotBudget(per_slot) ==
    [budget_sol |-> per_slot, start_budget_sol |-> per_slot,
     total_profit_sol |-> 0, trade_count |-> 0]

\* round(x, 1) of the rational n/d tenths: nearest integer, ties to even
RoundHalfEven(n, d) ==
    LET q == n \div d
        r == n % d
    IN IF 2 * r < d THEN q
       ELSE IF 2 * r > d THEN q + 1
       ELSE IF q % 2 = 0 THEN q ELSE q + 1

\* variant: the adjusted dip is rounded without the cap to 0.5x .. 1.5x of the base
adjusted_entry_dip_uncapped(history, token_address, mc) ==
    LET base == get_entry_dip(mc)
        trades == history[token_address]
        profitable == SelectSeq(trades, LAMBDA t : t.pnl_pct > 0)
        losing == SelectSeq(trades, LAMBDA t : t.pnl_pct <= 0)
        sumP == SumSeq([k \in 1..Len(profitable) |-> profitable[k].entry_dip_used])
        sumL == SumSeq([k \in 1..Len(losing) |-> losing[k].entry_dip_used])
        nP == Len(profitable)
        lN == IF Len(losing) > 0 THEN sumL ELSE base
        lD == IF Len(losing) > 0 THEN Len(losing) ELSE 1
        deeper == sumP * lD > lN * nP
        aN == IF deeper THEN base * nP + sumP ELSE base
        aD == IF deeper THEN 2 * nP ELSE 1
    IN IF Len(trades) < 2 THEN base
       ELSE IF nP = 0 THEN Min((base * 13) \div 10, base + 50)
       ELSE RoundHalfEven(aN, aD)

\* variant: the history only deepens the dip after losses; with a profitable
\* trade on record the base is returned
adjusted_entry_dip_not_nudged(history, token_address, mc) ==
    LET base == get_entry_dip(mc)
        trades == history[token_address]
        profitable == SelectSeq(trades, LAMBDA t : t.pnl_pct > 0)
    IN IF Len(trades) < 2 THEN base
       ELSE IF Len(profitable) = 0 THEN Min((base * 13) \div 10, base + 50)
       ELSE base

\* get_adjusted_entry_dip, in tenths of a percent
get_adjusted_entry_dip(history, token_address, mc) ==
    LET base == get_entry_dip(mc)
        trades == history[token_address]
        profitable == SelectSeq(trades, LAMBDA t : t.pnl_pct > 0)
        losing == SelectSeq(trades, LAMBDA t : t.pnl_pct <= 0)
        sumP == SumSeq([k \in 1..Len(profitable) |-> profitable[k].entry_dip_used])
        sumL == SumSeq([k \in 1..Len(losing) |-> losing[k].entry_dip_used])
        nP == Len(profitable)
        \* avg_losing_dip as the rational lN / lD
        lN == IF Len(losing) > 0 THEN sumL ELSE base
        lD == IF Len(losing) > 0 THEN Len(losing) ELSE 1
        \* adjusted as the rational aN / aD
        deeper == sumP * lD > lN * nP
        aN == IF deeper THEN base * nP + sumP ELSE base
        aD == IF deeper THEN 2 * nP ELSE 1
        \* min(base * 1.5, adjusted), then max(base * 0.5, .)
        capN == IF 2 * aN > 3 * base * aD THEN 3 * base ELSE aN
        capD == IF 2 * aN > 3 * base * aD THEN 2 ELSE aD
        flrN == IF 2 * capN < base * capD THEN base ELSE capN
        flrD == IF 2 * capN < base * capD THEN 2 ELSE capD
    IN IF Len(trades) < 2 THEN base
       ELSE IF nP = 0 THEN Min((base * 13) \div 10, base + 50)
       ELSE RoundHalfEven(flrN, flrD)

\* record_trade_history: append, keep the last 20
record_trade_history(history, slot, exit_pnl_pct) ==
    LET rec == [pnl_pct |-> exit_pnl_pct, dca_steps |-> slot.dca_step,
                entry_dip_used |-> slot.entry_dip_pct]
        all == Append(history[slot.token_address], rec)
        kept == IF Len(all) > 20 THEN SubSeq(all, Len(all) - 19, Len(all)) ELSE all
    IN [history EXCEPT ![slot.token_address] = kept]

\* tokens a swap of sol_amount at this price is quoted to return
QuoteOut(sol_amount, price) == (sol_amount * 10000) \div price

\* variant: a tranche below the minimum is swapped like any other
buy_tokens_no_minimum(sol_amount, price, b) ==
    IF b.swap_ok THEN [tx |-> TRUE, tokens |-> QuoteOut(sol_amount, price)]
    ELSE [tx |-> FALSE, tokens |-> 0]

\* buy_tokens: (tx, tokens); b.swap_ok says whether a swap returned a signature
buy_tokens(sol_amount, price, b) ==
    IF sol_amount < MIN_TRADE_SOL THEN [tx |-> FALSE, tokens |-> 0]
    ELSE IF b.swap_ok THEN [tx |-> TRUE, tokens |-> QuoteOut(sol_amount, price)]
    ELSE [tx |-> FALSE, tokens |-> 0]

\* the wallet after buy_tokens: the tokens arrive only if the swap landed on chain
WalletAfterBuy(wallet, tok, sol_amount, price, b) ==
    LET r == buy_tokens(sol_amount, price, b) IN
    IF r.tx /\ b.landed THEN [wallet EXCEPT ![tok] = 1] ELSE wallet

\* sell_tokens: (tx, sol_received); sells the whole balance
sell_tokens(wallet, tok, s) ==
    IF wallet[tok] <= 0 THEN [tx |-> FALSE, sol_received |-> 0]
    ELSE IF s.swap_ok THEN [tx |-> TRUE, sol_received |-> IF s.landed THEN s.recv ELSE 0]
    ELSE [tx |-> FALSE, sol_received |-> 0]

WalletAfterSell(wallet, tok, s) ==
    IF sell_tokens(wallet, tok, s).tx /\ s.landed THEN [wallet EXCEPT ![tok] = 0] ELSE wallet

\* floor of ((price - avg) / avg) * 100
PnlPct(price, avg) == ((price * avg.d - avg.n) * 100) \div avg.n


\* variant: the budget is split into three equal tranches
step_sol_even(budget_sol, k) == budget_sol \div 3

\* capital of DCA step k: budget_sol * DCA_SPLITS[k]
StepSol(budget_sol, k) == (budget_sol * DCA_SPLITS[k]) \div 100

\* price * (1 - drop / 100)
DropPrice(price, drop) == (price * (100 - drop)) \div 100

\* what one call on a slot did: the price it saw while the slot was watching
\* (0 = no valid price), the DCA step it tried to buy (0 = none) and whether the
\* buy went through, the sell's outcome
NoAct == [price |-> 0, buy |-> 0, buy_ok |-> FALSE, sell |-> "none", exit_price |-> 0, price_new |-> 0]

-----------------------------------------------------------------------------
(* _close_slot: sell, settle the budget, record the trade, re-arm the slot *)

\* variant: the budget is settled before the sell's outcome is known
close_slot_settling_first(slot, budget, wallet, history, price_sol, s) ==
    LET r == sell_tokens(wallet, slot.token_address, s)
        profit_sol == r.sol_received - slot.total_sol_invested
    IN [ok |-> FALSE, slot |-> slot,
        budget |-> [budget EXCEPT !.budget_sol = @ + profit_sol,
                                  !.total_profit_sol = @ + profit_sol,
                                  !.trade_count = @ + 1],
        history |-> history, wallet |-> wallet, profit |-> 0, exit_price |-> 0, price_new |-> 0]

\* variant: the re-armed slot's entry dip is derived before the closed trade is recorded
close_slot_dip_before_record(slot, budget, wallet, history, price_sol, s) ==
    LET r == sell_tokens(wallet, slot.token_address, s)
        profit_sol == r.sol_received - slot.total_sol_invested
        pnl_pct == IF slot.total_sol_invested > 0
                   THEN (profit_sol * 10000) \div slot.total_sol_invested ELSE 0
        budget2 == [budget EXCEPT !.budget_sol = @ + profit_sol,
                                  !.total_profit_sol = @ + profit_sol,
                                  !.trade_count = @ + 1]
        mc_for_dip == IF s.mc_new > 0 THEN s.mc_new ELSE slot.entry_mc
        slot2 == [_reset_slot(slot) EXCEPT
                    !.token_address = slot.token_address,
                    !.status = "watching",
                    !.watch_price = IF s.price_new > 0 THEN s.price_new ELSE price_sol,
                    !.entry_dip_pct = get_adjusted_entry_dip(history, slot.token_address, mc_for_dip)]
    IN IF ~r.tx
       THEN [ok |-> FALSE, slot |-> slot, budget |-> budget, history |-> history,
             wallet |-> wallet, profit |-> 0, exit_price |-> 0, price_new |-> 0]
       ELSE [ok |-> TRUE, slot |-> slot2, budget |-> budget2,
             history |-> record_trade_history(history, slot, pnl_pct),
             wallet |-> WalletAfterSell(wallet, slot.token_address, s), profit |-> profit_sol,
             exit_price |-> price_sol, price_new |-> s.price_new]

\* the result names the price the slot was closed at and the price fetched after
\* the sell (both 0 when the sell failed)
\* s = [swap_ok, landed, recv, price_new, mc_new]
_close_slot(slot, budget, wallet, history, price_sol, s) ==
    LET r == sell_tokens(wallet, slot.token_address, s)
        profit_sol == r.sol_received - slot.total_sol_invested
        pnl_pct == IF slot.total_sol_invested > 0
                   THEN (profit_sol * 10000) \div slot.total_sol_invested ELSE 0
        budget2 == [budget EXCEPT !.budget_sol = @ + profit_sol,
                                  !.total_profit_sol = @ + profit_sol,
                                  !.trade_count = @ + 1]
        history2 == record_trade_history(history, slot, pnl_pct)
        mc_for_dip == IF s.mc_new > 0 THEN s.mc_new ELSE slot.entry_mc
        slot2 == [_reset_slot(slot) EXCEPT
                    !.token_address = slot.token_address,
                    !.status = "watching",
                    !.watch_price = IF s.price_new > 0 THEN s.price_new ELSE price_sol,
                    !.entry_dip_pct = get_adjusted_entry_dip(history2, slot.token_address, mc_for_dip)]
    IN IF ~r.tx
       THEN [ok |-> FALSE, slot |-> slot, budget |-> budget, history |-> history,
             wallet |-> wallet, profit |-> 0, exit_price |-> 0, price_new |-> 0]
       ELSE [ok |-> TRUE, slot |-> slot2, budget |-> budget2, history |-> history2,
             wallet |-> WalletAfterSell(wallet, slot.token_address, s), profit |-> profit_sol,
             exit_price |-> price_sol, price_new |-> s.price_new]

\* variant: the updated budget replaces every entry of the cache
save_budgets_everywhere(cache, slot_id, updated_budget) == [i \in DOMAIN cache |-> updated_budget]

\* save_budgets_global: replace the slot's entry of the cache, then write the cache
save_budgets_global(cache, slot_id, updated_budget) == [cache EXCEPT ![slot_id] = updated_budget]

-----------------------------------------------------------------------------
(* process_slot, in the order of the source *)

\* variant: the reference price follows the price down as well
ratchet_to_price(slot, price) == [slot EXCEPT !.watch_price = price]

\* WATCHING: ratchet watch_price up to the price
Ratchet(slot, price) ==
    IF price > slot.watch_price THEN [slot EXCEPT !.watch_price = price] ELSE slot

\* variant: the dip has to exceed the trigger
dip_strictly_above(slot, price) ==
    LET w == Ratchet(slot, price).watch_price
    IN (w - price) * 1000 > slot.entry_dip_pct * w

\* dip_from_watch >= entry_dip_pct, after the ratchet
DipReached(slot, price) ==
    LET w == Ratchet(slot, price).watch_price
    IN (w - price) * 1000 >= slot.entry_dip_pct * w

\* WATCHING: the step-1 fill
EnterSlot(slot, budget, price, mc, tokens) ==
    LET step1_sol == StepSol(budget.budget_sol, 1)
        drops == get_dca_drops(mc)
    IN [Ratchet(slot, price) EXCEPT
            !.entry_price = price,
            !.step2_price = DropPrice(price, drops[1]),
            !.step3_price = DropPrice(price, drops[2]),
            !.dca_avg_price = Rat(price, 1),
            !.dca_step = 1,
            !.step1_sol = step1_sol,
            !.total_sol_invested = step1_sol,
            !.token_amount = tokens,
            !.entry_mc = mc,
            !.peak_price = price,
            !.status = "open"]

\* OPEN: update max PnL and peak price
TrackPeak(slot, price) ==
    LET pnl_pct == PnlPct(price, slot.dca_avg_price)
    IN [slot EXCEPT !.max_pnl_pct = IF pnl_pct > @ THEN pnl_pct ELSE @,
                    !.peak_price = IF price > @ THEN price ELSE @]

\* variant: step 2 is due whenever the price is at or below its trigger
dca_due_at_trigger(slot, price) ==
    IF slot.dca_step = 2 /\ price <= slot.step3_price THEN 3
    ELSE IF slot.dca_step >= 1 /\ price <= slot.step2_price THEN 2
    ELSE 0

\* OPEN: the DCA step this tick attempts (0 = none)
DcaDue(slot, price) ==
    IF slot.dca_step = 1 /\ price <= slot.step2_price THEN 2
    ELSE IF slot.dca_step = 2 /\ price <= slot.step3_price THEN 3
    ELSE 0

\* variant: the step-2 fill leaves the invested total as it was
fill_step2_total_kept(slot, budget, price, tokens) ==
    LET step2_sol == StepSol(budget.budget_sol, 2)
        total == slot.total_sol_invested + step2_sol
    IN [slot EXCEPT !.step2_sol = step2_sol,
                    !.token_amount = @ + tokens,
                    !.dca_step = 2,
                    !.dca_avg_price = Rat(slot.entry_price * slot.step1_sol + price * step2_sol, total)]

\* OPEN: the step-2 fill
FillStep2(slot, budget, price, tokens) ==
    LET step2_sol == StepSol(budget.budget_sol, 2)
        total == slot.total_sol_invested + step2_sol
    IN [slot EXCEPT !.step2_sol = step2_sol,
                    !.total_sol_invested = total,
                    !.token_amount = @ + tokens,
                    !.dca_step = 2,
                    !.dca_avg_price = Rat(slot.entry_price * slot.step1_sol + price * step2_sol, total)]

\* variant: the step-3 fill averages the old average and the price without weights
fill_step3_plain_mean(slot, budget, price, tokens) ==
    LET step3_sol == StepSol(budget.budget_sol, 3)
        total == slot.total_sol_invested + step3_sol
        avg == slot.dca_avg_price
    IN [slot EXCEPT !.step3_sol = step3_sol,
                    !.total_sol_invested = total,
                    !.token_amount = @ + tokens,
                    !.dca_step = 3,
                    !.dca_avg_price = Rat(avg.n + price * avg.d, 2 * avg.d)]

\* OPEN: the step-3 fill
FillStep3(slot, budget, price, tokens) ==
    LET step3_sol == StepSol(budget.budget_sol, 3)
        total == slot.total_sol_invested + step3_sol
        prev_weight == total - step3_sol
        avg == slot.dca_avg_price
    IN [slot EXCEPT !.step3_sol = step3_sol,
                    !.total_sol_invested = total,
                    !.token_amount = @ + tokens,
                    !.dca_step = 3,
                    !.dca_avg_price = Rat(avg.n * prev_weight + price * step3_sol * avg.d,
                                          total * avg.d)]

\* variant: a step-2 fill moves the step-3 trigger to the same drop below the new average
after_dca_reanchored(slot, budget, price, b) ==
    LET s1 == TrackPeak(slot, price)
        due == DcaDue(s1, price)
        r == buy_tokens(StepSol(budget.budget_sol, due), price, b)
        s2 == FillStep2(s1, budget, price, r.tokens)
    IN IF due = 2 /\ r.tx
       THEN [s2 EXCEPT !.step3_price =
                DropPrice(s2.dca_avg_price.n \div s2.dca_avg_price.d, get_dca_drops(s2.entry_mc)[2])]
       ELSE IF due = 3 /\ r.tx THEN FillStep3(s1, budget, price, r.tokens)
       ELSE s1

\* OPEN: the slot after the DCA section (b = the buy's outcome)
AfterDca(slot, budget, price, b) ==
    LET s1 == TrackPeak(slot, price)
        due == DcaDue(s1, price)
        r == buy_tokens(StepSol(budget.budget_sol, due), price, b)
    IN IF due = 2 /\ r.tx THEN FillStep2(s1, budget, price, r.tokens)
       ELSE IF due = 3 /\ r.tx THEN FillStep3(s1, budget, price, r.tokens)
       ELSE s1

\* OPEN: arm the trail when the tick's PnL (measured before the DCA section) reaches activate_pct
ArmTrail(slotBefore, slotNow, price, mc) ==
    IF PnlPct(price, slotBefore.dca_avg_price) >= get_trail_params(mc)[1]
    THEN [slotNow EXCEPT !.trail_active = TRUE] ELSE slotNow

\* variant: the trail sits trail_pct percentage points of PnL below the highest PnL
trail_hit_on_pnl(slot, price, mc) ==
    slot.trail_active
        /\ PnlPct(price, slot.dca_avg_price) <= slot.max_pnl_pct - get_trail_params(mc)[2]

\* OPEN: price_sol <= peak_price * (1 - trail_pct / 100) with the trail armed
TrailHit(slot, price, mc) ==
    slot.trail_active /\ price * 100 <= slot.peak_price * (100 - get_trail_params(mc)[2])


-----------------------------------------------------------------------------
(* Inputs of one step: what the network answers *)

\* outcome of a buy swap: no signature / signature but nothing landed / landed
NoBuy == [swap_ok |-> FALSE, landed |-> FALSE]
BuyIns ==
    IF "net" \in market.faults
    THEN {NoBuy, [swap_ok |-> TRUE, landed |-> FALSE], [swap_ok |-> TRUE, landed |-> TRUE]}
    ELSE {[swap_ok |-> TRUE, landed |-> TRUE]}

PriceOrNone(tok) == PriceOf(tok) \cup {0}

\* SOL a landed sell can return for this slot
RecvChoices(slot) == {(slot.total_sol_invested * pct) \div 100 : pct \in RecvPcts}

NoSell == [swap_ok |-> FALSE, landed |-> FALSE, recv |-> 0, price_new |-> 0, mc_new |-> 0]

\* the price lookup that follows a close: (price, mc), or (0, 0) when it fails
Lookups(tok) ==
    {[price |-> p, mc |-> McOf(tok)] : p \in PriceOf(tok)}
    \cup (IF "net" \in market.faults \/ PriceOf(tok) = {} THEN {[price |-> 0, mc |-> 0]} ELSE {})

\* the price lookup _close_slot makes right after the sell: the price the caller
\* just saw (any price when the caller saw none), or (0, 0) when it fails
LookupsAfter(tok, price_sol) ==
    {q \in Lookups(tok) : q.price = 0 \/ price_sol <= 0 \/ q.price = price_sol}

\* outcome of a sell swap, with the price lookup that follows a close
SellIns(slot, price_sol) ==
    (IF "net" \in market.faults
     THEN {NoSell}
          \cup {[swap_ok |-> TRUE, landed |-> FALSE, recv |-> 0,
                 price_new |-> q.price, mc_new |-> q.mc] :
                    q \in LookupsAfter(slot.token_address, price_sol)}
     ELSE {})
    \cup {[swap_ok |-> TRUE, landed |-> TRUE, recv |-> r, price_new |-> q.price, mc_new |-> q.mc] :
            r \in RecvChoices(slot), q \in LookupsAfter(slot.token_address, price_sol)}

\* a sell with no token balance fails whatever the network answers
SellInsFor(slot, wallet, price_sol) ==
    IF wallet[slot.token_address] <= 0 THEN {NoSell} ELSE SellIns(slot, price_sol)

NoActs == ListOf([i \in Slots |-> NoAct], LastSlot)

-----------------------------------------------------------------------------
(* process_slot: every outcome of one call, for every answer of the network *)

\* the result of a call: the slot and budget objects after it, the wallet, the
\* trade history, what it did, and whether it settled a close
Outcome(slot, budget, wallet, history, act, closed, profit) ==
    [slot |-> slot, budget |-> budget, wallet |-> wallet, history |-> history,
     act |-> act, closed |-> closed, profit |-> profit]

\* the call went through _close_slot (result c)
ClosedOutcome(c, act) ==
    Outcome(c.slot, c.budget, c.wallet, c.history,
            [act EXCEPT !.sell = IF c.ok THEN "ok" ELSE "failed",
                        !.exit_price = c.exit_price, !.price_new = c.price_new],
            c.ok, c.profit)

\* WATCHING at a valid price: ratchet, dip check, step-1 buy
WatchingAt(slot, budget, wallet, history, price) ==
    LET tok == slot.token_address
        step1_sol == StepSol(budget.budget_sol, 1)
        act == [NoAct EXCEPT !.price = price]
    IN IF ~DipReached(slot, price)
       THEN {Outcome(Ratchet(slot, price), budget, wallet, history, act, FALSE, 0)}
       ELSE {Outcome(IF buy_tokens(step1_sol, price, b).tx
                     THEN EnterSlot(slot, budget, price, McOf(tok),
                                    buy_tokens(step1_sol, price, b).tokens)
                     ELSE Ratchet(slot, price),
                     budget, WalletAfterBuy(wallet, tok, step1_sol, price, b), history,
                     [act EXCEPT !.buy = 1, !.buy_ok = buy_tokens(step1_sol, price, b).tx],
                     FALSE, 0) : b \in BuyIns}

\* OPEN at a valid price: PnL and peak, DCA section, trailing exit
OpenAt(slot, budget, wallet, history, price, b) ==
    LET tok == slot.token_address
        mc == McOf(tok)
        due == DcaDue(slot, price)
        s1 == AfterDca(slot, budget, price, b)
        w1 == IF due > 0
              THEN WalletAfterBuy(wallet, tok, StepSol(budget.budget_sol, due), price, b)
              ELSE wallet
        s2 == ArmTrail(slot, s1, price, mc)
        act == [NoAct EXCEPT !.price = price, !.buy = due, !.buy_ok = s1.dca_step > slot.dca_step]
    IN IF TrailHit(s2, price, mc)
       THEN {ClosedOutcome(_close_slot(s2, budget, w1, history, price, s), act) :
                s \in SellInsFor(s2, w1, price)}
       ELSE {Outcome(s2, budget, w1, history, act, FALSE, 0)}

\* a buy is attempted only when a DCA step is due
OpenOutcomes(slot, budget, wallet, history, price) ==
    UNION {OpenAt(slot, budget, wallet, history, price, b) :
              b \in IF DcaDue(slot, price) > 0 THEN BuyIns ELSE {NoBuy}}

process_slot(slot, budget, wallet, history) ==
    LET tok == slot.token_address
        nothing == {Outcome(slot, budget, wallet, history, NoAct, FALSE, 0)}
    IN IF slot.status = "empty" THEN nothing
       ELSE IF slot.status = "watching"
       THEN nothing \cup UNION {WatchingAt(slot, budget, wallet, history, price) :
                                    price \in PriceOf(tok)}
       ELSE IF slot.status = "open"
       THEN nothing \cup UNION {OpenOutcomes(slot, budget, wallet, history, price) :
                                    price \in PriceOf(tok)}
       ELSE nothing

-----------------------------------------------------------------------------
(* run_pair_trader: one loop iteration = load_slots, process_slot on every slot *)
(* in list order with the budgets of the cache, save_slots                      *)

FirstSlot == MinOf(Slots)

\* the state an iteration or a command works on
WorkState(slots, cache, file, wallet, history, log, acts) ==
    [slots |-> slots, cache |-> cache, file |-> file, wallet |-> wallet,
     history |-> history, log |-> log, acts |-> acts]

\* the work state after a process_slot call on slot i with outcome o: the call
\* works on the cache's budget object; a settled close goes through
\* save_budgets_global, which also writes the file
Settle(st, i, o) ==
    LET cache2 == save_budgets_global(st.cache, i, o.budget)
    IN WorkState([st.slots EXCEPT ![i] = o.slot],
                 cache2,
                 IF o.closed THEN cache2 ELSE st.file,
                 o.wallet, o.history,
                 IF o.closed THEN [st.log EXCEPT ![i] = Append(@, o.profit)] ELSE st.log,
                 [st.acts EXCEPT ![i] = o.act])

\* number of trades in pair_history.json
RECURSIVE TradesIn(_, _)
TradesIn(history, toks) ==
    IF toks = {} THEN 0
    ELSE LET t == CHOOSE u \in toks : TRUE
         IN Len(history[t]) + TradesIn(history, toks \ {t})

TradesRecorded(history) == TradesIn(history, Tokens)

\* trades closed so far plus trades in progress
TradesStarted(st) ==
    TradesRecorded(st.history) + Cardinality({i \in Slots : st.slots[i].status = "open"})

\* the market lets a run start MaxTrades trades: after that, step-1 buys fail
Allowed(st, i, o) ==
    \/ TradesStarted(st) < MaxTrades
    \/ ~(st.slots[i].status = "watching" /\ o.slot.status = "open")

RECURSIVE LoopFrom(_, _)
LoopFrom(i, st) ==
    IF i > LastSlot THEN {st}
    ELSE UNION {LoopFrom(i + 1, Settle(st, i, o)) :
                    o \in {x \in process_slot(st.slots[i], st.cache[i], st.wallet, st.history) :
                              Allowed(st, i, x)}}

Commit(op, i, st) ==
    /\ slotsFile' = st.slots
    /\ BUDGETS_CACHE' = st.cache
    /\ budgetsFile' = st.file
    /\ walletTok' = st.wallet
    /\ pairHistory' = st.history
    /\ closeLog' = st.log
    /\ ev' = st.acts
    /\ UNCHANGED <<loop, mode, market, liveVars, exitVars>>

Start == WorkState(slotsFile, BUDGETS_CACHE, budgetsFile, walletTok, pairHistory, closeLog, NoActs)

run_pair_trader ==
    /\ mode = "pair"
    /\ \E st \in LoopFrom(FirstSlot, Start) : Commit("tick", 0, st)

\* no iteration in progress: the loop is in asyncio.sleep(30)
\* (at = the slot the iteration is at, 0 between iterations; loaded = the list
\* load_slots returned; slots = the list as the iteration has changed it; acts =
\* what it has done; ended = how the last iteration ended; stops = how often
\* the process has stopped)
NoLoop == [at |-> 0, loaded |-> <<>>, slots |-> <<>>, acts |-> <<>>, ended |-> "", stops |-> 0]

-----------------------------------------------------------------------------
(* Operator commands (the Telegram layer calls them with the text the user sent) *)

\* the argument of /cancel and /close: a symbol or a slot id
CmdArgs == {[sym |-> t, id |-> 0] : t \in Tokens} \cup {[sym |-> "", id |-> i] : i \in Slots}

ArgMatches(arg, slot, i) == (arg.sym # "" /\ arg.sym = slot.token_address) \/ arg.id = i

\* a command that finds nothing to do replies and changes nothing
CmdRejected(op) == UNCHANGED vars

cmd_trade(token_address) ==
    LET slots == slotsFile
        tracking == \E i \in Slots : /\ slots[i].token_address = token_address
                                     /\ slots[i].status \in {"watching", "open"}
        free == {i \in Slots : slots[i].status = "empty"}
    IN /\ mode = "pair"
       /\ \E q \in Lookups(token_address) :
            IF tracking \/ free = {} \/ q.price <= 0
            THEN CmdRejected("cmd_trade")
            ELSE LET i == MinOf(free)
                     entry_dip == get_adjusted_entry_dip(pairHistory, token_address, q.mc)
                 IN Commit("cmd_trade", i,
                           [Start EXCEPT !.slots[i] =
                                [@ EXCEPT !.token_address = token_address,
                                          !.status = "watching",
                                          !.watch_price = q.price,
                                          !.entry_dip_pct = entry_dip,
                                          !.entry_mc = q.mc]])

\* variant: the command frees the first slot that matches, watching or open
cmd_cancel_any_status(arg) ==
    LET slots == slotsFile
        cand == {i \in Slots : slots[i].status \in {"watching", "open"} /\ ArgMatches(arg, slots[i], i)}
    IN /\ mode = "pair"
       /\ IF cand = {}
          THEN CmdRejected("cmd_cancel")
          ELSE Commit("cmd_cancel", MinOf(cand),
                      [Start EXCEPT !.slots[MinOf(cand)] = _reset_slot(@)])

cmd_cancel(arg) ==
    LET slots == slotsFile
        cand == {i \in Slots : slots[i].status = "watching" /\ ArgMatches(arg, slots[i], i)}
    IN /\ mode = "pair"
       /\ IF cand = {}
          THEN CmdRejected("cmd_cancel")
          ELSE Commit("cmd_cancel", MinOf(cand),
                      [Start EXCEPT !.slots[MinOf(cand)] = _reset_slot(@)])

\* one _close_slot call of a command on slot i of st, with the budget the command
\* loaded, price lookup q and sell outcome s; the slot is kept when the sell failed
CloseOne(st, budgets, i, q, s) ==
    LET c == _close_slot(st.slots[i], budgets[i], st.wallet, st.history, q.price, s)
    IN IF c.ok THEN Settle(st, i, ClosedOutcome(c, NoAct))
       ELSE [st EXCEPT !.acts[i] = [NoAct EXCEPT !.sell = "failed"]]

CloseOutcomes(st, budgets, i) ==
    UNION {{CloseOne(st, budgets, i, q, s) : s \in SellInsFor(st.slots[i], st.wallet, q.price)} :
              q \in Lookups(st.slots[i].token_address)}

cmd_close(arg) ==
    LET slots == slotsFile
        budgets == budgetsFile
        cand == {i \in Slots : slots[i].status = "open" /\ ArgMatches(arg, slots[i], i)}
    IN /\ mode = "pair"
       /\ IF cand = {}
          THEN CmdRejected("cmd_close")
          ELSE \E st \in CloseOutcomes(Start, budgets, MinOf(cand)) :
                  Commit("cmd_close", MinOf(cand), st)

\* cmd_closeall: _close_slot on every slot that was open when the command loaded the slots
RECURSIVE CloseAllFrom(_, _, _, _)
CloseAllFrom(i, open_slots, budgets, st) ==
    IF i > LastSlot THEN {st}
    ELSE IF i \in open_slots
         THEN UNION {CloseAllFrom(i + 1, open_slots, budgets, st2) :
                        st2 \in CloseOutcomes(st, budgets, i)}
         ELSE CloseAllFrom(i + 1, open_slots, budgets, st)

cmd_closeall ==
    LET slots == slotsFile
        budgets == budgetsFile
        open_slots == {i \in Slots : slots[i].status = "open"}
    IN /\ mode = "pair"
       /\ IF open_slots = {}
          THEN CmdRejected("cmd_closeall")
          ELSE \E st \in CloseAllFrom(FirstSlot, open_slots, budgets, Start) :
                  Commit("cmd_closeall", 0, st)

\* cmd_resetbudget: delete the budgets file, init_budgets from the wallet, replace the cache
cmd_resetbudget ==
    /\ mode = "pair"
    /\ "resetbudget" \in market.ops
    /\ \E per \in PerSlotChoices :
          Commit("cmd_resetbudget", 0,
                 [Start EXCEPT !.cache = ListOf([i \in Slots |-> SlotBudget(per)], LastSlot),
                               !.file = ListOf([i \in Slots |-> SlotBudget(per)], LastSlot),
                               !.log = ListOf([i \in Slots |-> <<>>], LastSlot)])

Command ==
    \/ \E t \in Tokens : cmd_trade(t)
    \/ \E a \in CmdArgs : cmd_cancel(a)
    \/ \E a \in CmdArgs : cmd_close(a)
    \/ cmd_closeall
    \/ cmd_resetbudget

-----------------------------------------------------------------------------
(* run_pair_trader step by step: an iteration suspends at the network calls of *)
(* process_slot, where a command can run and where the process can stop        *)

\* slots = load_slots(); budgets = _BUDGETS_CACHE
load_slots ==
    /\ mode = "pair"
    /\ loop.at = 0
    /\ loop' = [at |-> FirstSlot, loaded |-> slotsFile, slots |-> slotsFile,
                acts |-> NoActs, ended |-> "", stops |-> loop.stops]
    /\ UNCHANGED <<slotsFile, budgetsFile, BUDGETS_CACHE, pairHistory, walletTok, closeLog, ev,
                   mode, market, liveVars, exitVars>>

\* slots[i] = await process_slot(slot, budget, wallet) for the slot the iteration is at
process_next_slot ==
    LET i == loop.at
        st == WorkState(loop.slots, BUDGETS_CACHE, budgetsFile, walletTok, pairHistory,
                        closeLog, loop.acts)
    IN /\ mode = "pair"
       /\ i \in Slots
       /\ \E o \in process_slot(st.slots[i], st.cache[i], st.wallet, st.history) :
             /\ Allowed(st, i, o)
             /\ LET st2 == Settle(st, i, o)
                IN /\ loop' = [loop EXCEPT !.at = i + 1, !.slots = st2.slots, !.acts = st2.acts]
                   /\ BUDGETS_CACHE' = st2.cache
                   /\ budgetsFile' = st2.file
                   /\ walletTok' = st2.wallet
                   /\ pairHistory' = st2.history
                   /\ closeLog' = st2.log
                   /\ ev' = st2.acts
       /\ UNCHANGED <<slotsFile, mode, market, liveVars, exitVars>>

\* save_slots(slots), then asyncio.sleep(30)
save_slots ==
    /\ mode = "pair"
    /\ loop.at > LastSlot
    /\ slotsFile' = loop.slots
    /\ loop' = [NoLoop EXCEPT !.ended = "saved", !.stops = loop.stops]
    /\ UNCHANGED <<budgetsFile, BUDGETS_CACHE, pairHistory, walletTok, closeLog, ev,
                   mode, market, liveVars, exitVars>>

\* what init_budgets returns when the process starts: the budgets of the file,
\* or new ones from the wallet when those of the file add up to less than
\* MIN_TRADE_SOL
init_budgets(file) ==
    IF SumSeq(ListOf([i \in Slots |-> file[i].budget_sol], LastSlot)) >= MIN_TRADE_SOL
    THEN {file}
    ELSE {ListOf([i \in Slots |-> SlotBudget(per)], LastSlot) : per \in PerSlotChoices}

\* the process stops while an iteration is in progress and is started again:
\* what was in memory is gone, run_pair_trader starts from the files
Restart ==
    /\ mode = "pair"
    /\ loop.at > 0
    /\ loop.stops < MaxStops
    /\ \E budgets \in init_budgets(budgetsFile) :
          /\ BUDGETS_CACHE' = budgets
          /\ budgetsFile' = budgets
          /\ closeLog' = IF budgets = budgetsFile THEN closeLog
                         ELSE ListOf([i \in Slots |-> <<>>], LastSlot)
    /\ loop' = [NoLoop EXCEPT !.ended = "stopped", !.stops = loop.stops + 1]
    /\ UNCHANGED <<slotsFile, pairHistory, walletTok, ev, mode, market, liveVars, exitVars>>

-----------------------------------------------------------------------------
(* live_trader.py: constants, records, pure helpers                         *)
(* SOL in units of 0.001 SOL, prices in ticks (10000 = "1.00"), PnL in      *)
(* basis points, times in minutes, market cap = price ticks                 *)

MAX_POSITION_SOL == 100
WALLET_UTILIZATION == 85
MAX_OPEN_TRADES == 4
MIN_FEE_RESERVE == 5
MIN_BUY_RATIO == 13
MIN_SIGNAL_LIQUIDITY == 12000
SIGNAL_MIN_AGE_MINS == 10
SIGNAL_MAX_AGE_MINS == 60
DIP_FROM_PEAK_PCT == 10
MIN_DIP_PCT == 5
MAX_TRADES_PER_TOKEN == 2
VOL_DECAY_THRESHOLD == 20
DCA_STEPS == <<15, 25, 60>>
DCA_STEP_TRIGGERS == <<0, 12, 28>>

\* the trade type the scanner gives each token
TypeOf(tok) == IF tok = "A" THEN "QUICK" ELSE IF tok = "B" THEN "RANGE" ELSE "GEM"

\* TokenMetrics; ok = FALSE stands for None
Metrics(price, flow) ==
    [ok |-> TRUE, price |-> price, mc |-> price,
     vol_5m |-> flow.vol_5m, buys_5m |-> flow.buys_5m, sells_5m |-> flow.sells_5m]

NoMetrics == [ok |-> FALSE, price |-> 0, mc |-> 0, vol_5m |-> 0, buys_5m |-> 0, sells_5m |-> 0]

\* LivePosition as buy_token creates it; exit_time -1 stands for ""
LivePosition(token_address, trade_type, current_price, market_cap, sol_amount, actual_received, time, entry_metrics) ==
    [token_address |-> token_address, trade_type |-> trade_type, status |-> "OPEN",
     entry_price |-> current_price, entry_time |-> time,
     sol_amount |-> sol_amount, token_amount |-> actual_received,
     exit_price |-> 0, exit_time |-> -1, exit_tx |-> "", pnl_percent |-> 0,
     max_pnl_percent |-> 0,
     entry_vol_5m |-> IF entry_metrics.ok THEN entry_metrics.vol_5m ELSE 0,
     max_mc |-> market_cap,
     dca_step |-> 1, dca_total_sol |-> sol_amount, dca_avg_price |-> Rat(current_price, 1),
     tx_hash |-> 0]

\* a record no position equals (placeholder in the local list)
NoPosition ==
    [LivePosition("", "", 0, 0, 0, 0, -1, NoMetrics) EXCEPT !.status = "", !.dca_step = 0,
                                                           !.dca_avg_price = [n |-> 0, d |-> 1]]

\* tokens a Jupiter quote returns for sol_amount at this price
LiveQuoteOut(sol_amount, price) == (sol_amount * 1000000) \div price

\* ((sol_value - sol_amount) / sol_amount) * 100 with sol_value the quote for
\* raw_amount tokens at this price, in basis points
LivePnl(raw_amount, price, sol_amount) == (raw_amount * price) \div (100 * sol_amount) - 10000

\* ((current_price - entry_price) / entry_price) * 100 if current_price > 0 else -100
PricePnl(current_price, entry_price) ==
    IF current_price > 0 THEN ((current_price - entry_price) * 10000) \div entry_price
    ELSE -10000

SameTokenOpen(pos, p) == p.token_address = pos.token_address /\ p.status = "OPEN"

\* p.token_address == pos.token_address and p.entry_time == pos.entry_time: the
\* entry_time of the source has microseconds, so two buys never share one; the
\* clock here is coarser, and the serial number of the buy stands for it
SameTrade(pos, p) == p.token_address = pos.token_address /\ p.tx_hash = pos.tx_hash

\* the test of a replacement loop: "open" looks for an OPEN record of pos's
\* token, "trade" for the record of pos's token and entry_time
Same(test, pos, p) == IF test = "trade" THEN SameTrade(pos, p) ELSE SameTokenOpen(pos, p)

\* index of the first element of s that passes the test for pos, 0 if none
FirstIndex(s, test, pos) ==
    LET I == {i \in 1..Len(s) : Same(test, pos, s[i])}
    IN IF I = {} THEN 0 ELSE MinOf(I)

\* for i, p in enumerate(positions): if <test>: positions[i] = pos; break
\* (pos2 is pos after the changes the caller made to it)
ReplaceFirst(s, test, pos, pos2) ==
    LET i == FirstIndex(s, test, pos)
    IN IF i = 0 THEN s ELSE [s EXCEPT ![i] = pos2]

OpenIn(positions) == {i \in 1..Len(positions) : positions[i].status = "OPEN"}

\* variant: only the OPEN positions of the token are counted
count_open_trades_for_token(positions, token_address) ==
    Cardinality({i \in OpenIn(positions) : positions[i].token_address = token_address})

\* count_trades_for_token
count_trades_for_token(positions, token_address) ==
    Cardinality({i \in 1..Len(positions) : positions[i].token_address = token_address})

\* SessionStats: buys, sells, wins, losses
NoStats == [buys |-> 0, sells |-> 0, wins |-> 0, losses |-> 0]

update_session_buy(stats) == [stats EXCEPT !.buys = @ + 1]

update_session_sell(stats, pnl_pct) ==
    [stats EXCEPT !.sells = @ + 1,
                  !.wins = IF pnl_pct >= 0 THEN @ + 1 ELSE @,
                  !.losses = IF pnl_pct >= 0 THEN @ ELSE @ + 1]

-----------------------------------------------------------------------------
(* live_trader.py: check_exit_conditions                                    *)
(* PnL in basis points (100 = 1%), times in minutes, volumes and market cap *)
(* in the units of the metrics                                              *)

\* variant: every type is given the 48 hours of RANGE
trade_configs_two_days(trade_type) ==
    IF trade_type = "MOMENTUM" THEN [target |-> 3700, stop |-> -8500, timeout |-> 48 * 60]
    ELSE IF trade_type = "GEM" THEN [target |-> 11200, stop |-> -8500, timeout |-> 48 * 60]
    ELSE IF trade_type = "RANGE" THEN [target |-> 2500, stop |-> -3000, timeout |-> 48 * 60]
    ELSE [target |-> 2000, stop |-> -8500, timeout |-> 48 * 60]

\* TRADE_CONFIGS.get(trade_type, TRADE_CONFIGS["QUICK"]): target and stop in
\* basis points, timeout in minutes
TRADE_CONFIGS(trade_type) ==
    IF trade_type = "MOMENTUM" THEN [target |-> 3700, stop |-> -8500, timeout |-> 6 * 60]
    ELSE IF trade_type = "GEM" THEN [target |-> 11200, stop |-> -8500, timeout |-> 24 * 60]
    ELSE IF trade_type = "RANGE" THEN [target |-> 2500, stop |-> -3000, timeout |-> 48 * 60]
    ELSE [target |-> 2000, stop |-> -8500, timeout |-> 2 * 60]

\* TokenMetrics.buy_ratio < 0.8, with buy_ratio = buys_5m / max(1, sells_5m)
BuyRatioBelow08(metrics) == metrics.buys_5m * 10 < 8 * Max(1, metrics.sells_5m)

\* variant: the stop-loss is looked at before the profit exits
check_exit_stop_first(pos, pnl, metrics, time) ==
    IF pnl <= TRADE_CONFIGS(pos.trade_type).stop THEN "STOP"
    ELSE IF pnl >= TRADE_CONFIGS(pos.trade_type).target THEN "TARGET"
    ELSE IF pos.max_pnl_percent >= 1500 /\ pnl <= pos.max_pnl_percent - 600 THEN "TRAIL"
    ELSE IF pos.max_pnl_percent >= 1200 /\ pnl <= 800 THEN "PROFIT_LOCK"
    ELSE IF time - pos.entry_time > TRADE_CONFIGS(pos.trade_type).timeout THEN "TIMEOUT"
    ELSE "NONE"

\* variant: the profit lock is looked at before the trailing exit
check_exit_lock_first(pos, pnl, metrics, time) ==
    LET config == TRADE_CONFIGS(pos.trade_type)
        held_mins == time - pos.entry_time
        dca_step == IF pos.dca_step # 0 THEN pos.dca_step ELSE 1
        fully_invested == dca_step >= 3
    IN IF pnl >= config.target THEN "TARGET"
       ELSE IF pos.max_pnl_percent >= 1200 /\ pnl <= 800 THEN "PROFIT_LOCK"
       ELSE IF pos.max_pnl_percent >= 1500 /\ pnl <= pos.max_pnl_percent - 600 THEN "TRAIL"
       ELSE IF pos.max_pnl_percent >= 1800 /\ pnl <= 600 THEN "EMERGENCY_SAVE"
       ELSE IF ~fully_invested
            THEN (IF held_mins > 1440 THEN "DCA_TIMEOUT" ELSE "NONE")
       ELSE IF pos.trade_type = "RANGE"
            THEN (IF pnl <= config.stop THEN "RANGE STOP"
                  ELSE IF held_mins > config.timeout THEN "RANGE TIMEOUT"
                  ELSE "NONE")
       ELSE IF pnl <= config.stop THEN "STOP"
       ELSE IF /\ metrics.ok /\ held_mins >= 5
               /\ pos.entry_vol_5m > 0 /\ metrics.vol_5m * 100 < pos.entry_vol_5m * VOL_DECAY_THRESHOLD
               /\ pnl < -500
            THEN "VOL_DECAY"
       ELSE IF /\ metrics.ok /\ held_mins >= 5
               /\ metrics.sells_5m > metrics.buys_5m * 2 /\ pnl < -1000
            THEN "DUMP"
       ELSE IF /\ metrics.ok /\ held_mins >= 5
               /\ pos.max_mc > 0 /\ metrics.mc * 100 < pos.max_mc * 85
               /\ held_mins > 15 /\ pnl < 500
            THEN "MC_STALL"
       ELSE IF /\ metrics.ok /\ held_mins >= 5
               /\ pos.trade_type = "QUICK" /\ held_mins > 15
               /\ pnl < -1500 /\ BuyRatioBelow08(metrics)
            THEN "QUICK_CUT"
       ELSE IF held_mins > config.timeout THEN "TIMEOUT"
       ELSE "NONE"

\* the rule that fires ("NONE" = no exit); the source returns the rule's name
\* followed by the PnL
check_exit_conditions(pos, pnl, metrics, time) ==
    LET config == TRADE_CONFIGS(pos.trade_type)
        held_mins == time - pos.entry_time
        dca_step == IF pos.dca_step # 0 THEN pos.dca_step ELSE 1
        fully_invested == dca_step >= 3
    IN IF pnl >= config.target THEN "TARGET"
       ELSE IF pos.max_pnl_percent >= 1500 /\ pnl <= pos.max_pnl_percent - 600 THEN "TRAIL"
       ELSE IF pos.max_pnl_percent >= 1200 /\ pnl <= 800 THEN "PROFIT_LOCK"
       ELSE IF pos.max_pnl_percent >= 1800 /\ pnl <= 600 THEN "EMERGENCY_SAVE"
       ELSE IF ~fully_invested
            THEN (IF held_mins > 1440 THEN "DCA_TIMEOUT" ELSE "NONE")
       ELSE IF pos.trade_type = "RANGE"
            THEN (IF pnl <= config.stop THEN "RANGE STOP"
                  ELSE IF held_mins > config.timeout THEN "RANGE TIMEOUT"
                  ELSE "NONE")
       ELSE IF pnl <= config.stop THEN "STOP"
       ELSE IF /\ metrics.ok /\ held_mins >= 5
               /\ pos.entry_vol_5m > 0 /\ metrics.vol_5m * 100 < pos.entry_vol_5m * VOL_DECAY_THRESHOLD
               /\ pnl < -500
            THEN "VOL_DECAY"
       ELSE IF /\ metrics.ok /\ held_mins >= 5
               /\ metrics.sells_5m > metrics.buys_5m * 2 /\ pnl < -1000
            THEN "DUMP"
       ELSE IF /\ metrics.ok /\ held_mins >= 5
               /\ pos.max_mc > 0 /\ metrics.mc * 100 < pos.max_mc * 85
               /\ held_mins > 15 /\ pnl < 500
            THEN "MC_STALL"
       ELSE IF /\ metrics.ok /\ held_mins >= 5
               /\ pos.trade_type = "QUICK" /\ held_mins > 15
               /\ pnl < -1500 /\ BuyRatioBelow08(metrics)
            THEN "QUICK_CUT"
       ELSE IF held_mins > config.timeout THEN "TIMEOUT"
       ELSE "NONE"

-----------------------------------------------------------------------------
(* live_trader.py: sell_token, process_dca_step *)

\* what is left of raw_amount tokens after a sell that leaves a remainder
Dust(raw_amount) == raw_amount \div 20

\* the wallet's balance of the token when sell_token verifies the sell
\* s = [quote_ok, swap_ok, landed ("no", "now", "late"), dust]
BalanceAtVerify(raw_amount, s) ==
    IF s.quote_ok /\ s.swap_ok /\ s.landed = "now"
    THEN (IF s.dust THEN Dust(raw_amount) ELSE 0)
    ELSE raw_amount

\* the balance a moment later, when manage_positions looks again
BalanceAtRecheck(raw_amount, s) ==
    IF s.quote_ok /\ s.swap_ok /\ s.landed = "late" THEN 0
    ELSE BalanceAtVerify(raw_amount, s)

\* variant: the sell is taken as done as soon as the swap returns a signature
sell_token_unverified(pos, raw_amount, positions, stats, current_price, time, s) ==
    LET pnl == LivePnl(raw_amount, current_price, pos.sol_amount)
        pos2 == [pos EXCEPT !.status = "CLOSED", !.exit_price = current_price,
                            !.exit_time = time, !.exit_tx = "TX", !.pnl_percent = pnl]
    IN IF raw_amount <= 0 \/ ~s.quote_ok \/ ~s.swap_ok
       THEN [ok |-> FALSE, pos |-> pos, positions |-> positions, stats |-> stats]
       ELSE [ok |-> TRUE, pos |-> pos2,
             positions |-> ReplaceFirst(positions, "open", pos, pos2),
             stats |-> update_session_sell(stats, pnl)]

\* sell_token: (ok, the position object, live_positions.json, the session stats)
sell_token(pos, raw_amount, positions, stats, current_price, time, s) ==
    LET pnl == LivePnl(raw_amount, current_price, pos.sol_amount)
        remaining == BalanceAtVerify(raw_amount, s)
        pos2 == [pos EXCEPT !.status = "CLOSED", !.exit_price = current_price,
                            !.exit_time = time, !.exit_tx = "TX", !.pnl_percent = pnl]
    IN IF raw_amount <= 0 \/ ~s.quote_ok \/ ~s.swap_ok \/ remaining * 10 > raw_amount
       THEN [ok |-> FALSE, pos |-> pos, positions |-> positions, stats |-> stats]
       ELSE [ok |-> TRUE, pos |-> pos2,
             positions |-> ReplaceFirst(positions, "open", pos, pos2),
             stats |-> update_session_sell(stats, pnl)]

\* pos.dca_step if pos.dca_step and pos.dca_step > 0 else 1
CurrentStep(pos) == IF pos.dca_step > 0 THEN pos.dca_step ELSE 1

\* dip_percent >= required_dip for the next step, measured from the original entry price
LiveDcaDue(pos, current_price) ==
    /\ CurrentStep(pos) < 3
    /\ pos.entry_price > 0
    /\ (pos.entry_price - current_price) * 100
          >= DCA_STEP_TRIGGERS[CurrentStep(pos) + 1] * pos.entry_price

\* step_sol = min(MAX_POSITION_SOL * step_percent, usable_balance * 0.5)
LiveStepSol(next_step, sol_balance) ==
    Min((MAX_POSITION_SOL * DCA_STEPS[next_step]) \div 100,
        Max(0, sol_balance - MIN_FEE_RESERVE) \div 2)

\* variant: the next step is taken from the size of the dip
process_dca_step_by_dip(pos, current_price, positions, stats, sol_balance, b) ==
    LET deep == (pos.entry_price - current_price) * 100 >= DCA_STEP_TRIGGERS[3] * pos.entry_price
        next_step == IF deep THEN 3 ELSE CurrentStep(pos) + 1
        step_sol == LiveStepSol(next_step, sol_balance)
        total == pos.dca_total_sol + step_sol
        pos2 == [pos EXCEPT !.dca_step = next_step, !.dca_total_sol = total,
                            !.sol_amount = total,
                            !.token_amount = @ + LiveQuoteOut(step_sol, current_price)]
    IN IF ~LiveDcaDue(pos, current_price) \/ ~b.quote_ok \/ ~b.swap_ok
       THEN [ok |-> FALSE, pos |-> pos, positions |-> positions, stats |-> stats,
             step_sol |-> 0, bought |-> 0]
       ELSE [ok |-> TRUE, pos |-> pos2,
             positions |-> ReplaceFirst(positions, "open", pos, pos2),
             stats |-> update_session_buy(stats), step_sol |-> step_sol,
             bought |-> IF b.landed THEN LiveQuoteOut(step_sol, current_price) ELSE 0]

\* process_dca_step: (ok, the position object, live_positions.json, the session
\* stats, the SOL spent, the tokens that reached the wallet)
\* b = [quote_ok, swap_ok, landed]
process_dca_step(pos, current_price, positions, stats, sol_balance, b) ==
    LET dca_step == CurrentStep(pos)
        next_step == dca_step + 1
        step_sol == LiveStepSol(next_step, sol_balance)
        out_amount == LiveQuoteOut(step_sol, current_price)
        \* no tokens seen: "still update position, tokens may arrive later"
        actual_received == out_amount
        old_total_sol == IF pos.dca_total_sol > 0 THEN pos.dca_total_sol ELSE pos.sol_amount
        new_total_sol == old_total_sol + step_sol
        old_avg == IF pos.dca_avg_price.n > 0 THEN pos.dca_avg_price
                   ELSE Rat(pos.entry_price, 1)
        new_avg_price == Rat(old_total_sol * old_avg.n + step_sol * current_price * old_avg.d,
                             new_total_sol * old_avg.d)
        pos2 == [pos EXCEPT !.dca_step = next_step,
                            !.dca_total_sol = new_total_sol,
                            !.dca_avg_price = new_avg_price,
                            !.sol_amount = new_total_sol,
                            !.token_amount = @ + actual_received]
        failed == [ok |-> FALSE, pos |-> pos, positions |-> positions, stats |-> stats,
                   step_sol |-> 0, bought |-> 0]
    IN IF ~LiveDcaDue(pos, current_price) THEN failed
       ELSE IF step_sol < 1 THEN failed
       ELSE IF ~b.quote_ok \/ out_amount = 0 \/ ~b.swap_ok THEN failed
       ELSE [ok |-> TRUE, pos |-> pos2,
             positions |-> ReplaceFirst(positions, "open", pos, pos2),
             stats |-> update_session_buy(stats), step_sol |-> step_sol,
             bought |-> IF b.landed THEN out_amount ELSE 0]

-----------------------------------------------------------------------------
(* live_trader.py: manage_positions                                          *)
(* The function works on three things: the file live_positions.json, the    *)
(* position objects of its first load (open_positions iterates over them),  *)
(* and its local list `positions`, whose entries are either those objects   *)
(* or the objects of a later load.                                          *)

\* what one pass did to a position: whether it had the data to look at it, the
\* DCA step it filled (0 = none), the sell's outcome, whether it closed the
\* position for its zero balance, whether it re-opened it
LiveNoAct ==
    [data |-> FALSE, dca |-> 0, sell |-> "none", phantom |-> FALSE, reopened |-> FALSE,
     no_balance |-> FALSE, price |-> 0]

\* an entry of the local list: the object of the first load with this index
\* (ref > 0), or an object of a later load (ref = 0, val)
Alias(k) == [ref |-> k, val |-> NoPosition]
Fresh(p) == [ref |-> 0, val |-> p]

\* the local list right after load_positions()
Loaded(file) == ListOf([i \in 1..Len(file) |-> Fresh(file[i])], Len(file))

\* what save_positions(positions) writes
Saved(local, objs) ==
    ListOf([i \in 1..Len(local) |->
               IF local[i].ref > 0 THEN objs[local[i].ref] ELSE local[i].val], Len(local))

\* for i, p in enumerate(positions): if <test>: positions[i] = pos; break
\* with pos the object of the first load with index k
Rebind(local, objs, test, k) ==
    LET i == FirstIndex(Saved(local, objs), test, objs[k])
    IN IF i = 0 THEN local ELSE [local EXCEPT ![i] = Alias(k)]

ManageState(file, local, objs, wallet, stats, log, acts) ==
    [file |-> file, local |-> local, objs |-> objs, wallet |-> wallet,
     stats |-> stats, log |-> log, acts |-> acts]

\* raw_amount <= 0: auto-close the phantom position, save the local list
PhantomClose(st, k, metrics, time) ==
    LET pos == st.objs[k]
        pos2 == [pos EXCEPT !.status = "CLOSED", !.exit_price = metrics.price,
                            !.exit_time = time, !.exit_tx = "BALANCE_ZERO",
                            !.pnl_percent = PricePnl(metrics.price, pos.entry_price)]
        objs2 == [st.objs EXCEPT ![k] = pos2]
        local2 == Rebind(st.local, objs2, "trade", k)
    IN [st EXCEPT !.objs = objs2, !.local = local2, !.file = Saved(local2, objs2),
                  !.acts[k].data = TRUE, !.acts[k].phantom = TRUE]

\* update max_pnl_percent and max_mc; if one changed, load the file again, put
\* the object in and save
TrackMax(st, k, pnl_now, metrics) ==
    LET pos == st.objs[k]
        pos2 == [pos EXCEPT !.max_pnl_percent = IF pnl_now > @ THEN pnl_now ELSE @,
                            !.max_mc = IF metrics.mc > @ THEN metrics.mc ELSE @]
        updated == pos2 # pos
        objs2 == [st.objs EXCEPT ![k] = pos2]
        local2 == Rebind(Loaded(st.file), objs2, "open", k)
    IN IF updated
       THEN [st EXCEPT !.objs = objs2, !.local = local2, !.file = Saved(local2, objs2)]
       ELSE st

\* an exit rule fired: sell_token, and the recovery when it reports failure
ExitPosition(st, k, pnl_now, metrics, time, s) ==
    LET pos == st.objs[k]
        tok == pos.token_address
        raw_amount == st.wallet[tok]
        r == sell_token(pos, raw_amount, st.file, st.stats, metrics.price, time, s)
        remaining == BalanceAtRecheck(raw_amount, s)
        pos2 == [pos EXCEPT !.status = "CLOSED", !.exit_price = metrics.price,
                            !.exit_time = time, !.exit_tx = "SELL_UNCONFIRMED",
                            !.pnl_percent = pnl_now]
        objs2 == [st.objs EXCEPT ![k] = pos2]
        local2 == Rebind(st.local, objs2, "open", k)
    IN IF r.ok
       THEN [st EXCEPT !.objs[k] = r.pos, !.file = r.positions, !.stats = r.stats,
                       !.wallet[tok] = BalanceAtVerify(raw_amount, s),
                       !.log = Append(@, pos.tx_hash), !.acts[k].sell = "ok"]
       ELSE IF remaining <= 0
       THEN [st EXCEPT !.objs = objs2, !.local = local2, !.file = Saved(local2, objs2),
                       !.stats = update_session_sell(@, pnl_now),
                       !.wallet[tok] = remaining,
                       !.log = Append(@, pos.tx_hash), !.acts[k].sell = "unconfirmed"]
       ELSE [st EXCEPT !.wallet[tok] = remaining, !.acts[k].sell = "failed"]

\* no exit: process_dca_step, and the reload after a fill
DcaPosition(st, k, metrics, sol_balance, b) ==
    LET pos == st.objs[k]
        tok == pos.token_address
        r == process_dca_step(pos, metrics.price, st.file, st.stats, sol_balance, b)
    IN IF r.ok
       THEN [st EXCEPT !.objs[k] = r.pos, !.file = r.positions, !.stats = r.stats,
                       !.local = Loaded(r.positions),
                       !.wallet[tok] = @ + r.bought,
                       !.acts[k].dca = r.pos.dca_step]
       ELSE st

-----------------------------------------------------------------------------
(* Inputs of the live trader: what the network answers *)

\* SOL balance of the wallet (units of 0.001 SOL), and that of a wallet running short
SolBalance == 1000
ShortBalance == 45

\* get_sol_balance: what the wallet holds when a buy is sized
get_sol_balance == IF "short" \in market.faults THEN ShortBalance ELSE SolBalance

\* liquidity the scanner reports with a signal (USD), and that of a thin market
SignalLiquidity == 20000
ThinLiquidity == 10000

\* get_token_metrics: metrics at one of the market's prices, or None
MetricsIns(tok) ==
    {Metrics(p, f) : p \in PriceOf(tok), f \in market.flows}
    \cup (IF "lookup" \in market.faults THEN {NoMetrics} ELSE {})

\* get_token_balance_raw of manage_positions and sync_positions: answered, or
\* failed (an RPC error or a timeout)
BalanceIns == {TRUE} \cup (IF "balance" \in market.faults THEN {FALSE} ELSE {})

\* get_token_value_sol: a quote, or None
ValueIns == {TRUE} \cup (IF "quote" \in market.faults THEN {FALSE} ELSE {})

\* outcome of a sell: rejected / landed in time / landed with a remainder /
\* signature returned but landed only after sell_token looked / never landed
LiveSellIns ==
    {[quote_ok |-> TRUE, swap_ok |-> TRUE, landed |-> "now", dust |-> FALSE]}
    \cup (IF "swap" \in market.faults
          THEN {[quote_ok |-> TRUE, swap_ok |-> FALSE, landed |-> "no", dust |-> FALSE],
                [quote_ok |-> TRUE, swap_ok |-> TRUE, landed |-> "no", dust |-> FALSE]}
          ELSE {})
    \cup (IF "late" \in market.faults
          THEN {[quote_ok |-> TRUE, swap_ok |-> TRUE, landed |-> "late", dust |-> FALSE]}
          ELSE {})
    \cup (IF "dust" \in market.faults
          THEN {[quote_ok |-> TRUE, swap_ok |-> TRUE, landed |-> "now", dust |-> TRUE]}
          ELSE {})

\* outcome of a buy: landed / rejected / signature returned but no tokens seen
LiveBuyIns ==
    {[quote_ok |-> TRUE, swap_ok |-> TRUE, landed |-> TRUE]}
    \cup (IF "swap" \in market.faults
          THEN {[quote_ok |-> TRUE, swap_ok |-> FALSE, landed |-> FALSE],
                [quote_ok |-> TRUE, swap_ok |-> TRUE, landed |-> FALSE]}
          ELSE {})

-----------------------------------------------------------------------------
(* manage_positions: one pass over the positions that were OPEN at its load *)

\* a position with a balance: PnL, tracking, exit rules, DCA
ManageHeld(st, k, metrics, time, quoted) ==
    LET pos == st.objs[k]
        raw_amount == st.wallet[pos.token_address]
        pnl_now == LivePnl(raw_amount, metrics.price, pos.sol_amount)
        st1 == [TrackMax(st, k, pnl_now, metrics) EXCEPT !.acts[k].data = TRUE,
                                                        !.acts[k].price = metrics.price]
        pos1 == st1.objs[k]
        reason == check_exit_conditions(pos1, pnl_now, metrics, time)
    IN IF ~quoted \/ pos.sol_amount <= 0 THEN {st}
       ELSE IF reason # "NONE"
       THEN {ExitPosition(st1, k, pnl_now, metrics, time, s) : s \in LiveSellIns}
       ELSE IF LiveDcaDue(pos1, metrics.price)
       THEN {DcaPosition(st1, k, metrics, get_sol_balance, b) : b \in LiveBuyIns}
       ELSE {st1}

\* the position with index k once its metrics are there: the balance lookup
\* (get_token_balance_raw returns 0 when it fails), the phantom check, the rest
ManageBalance(st, k, metrics, time, answered) ==
    LET tok == st.objs[k].token_address
        raw_amount == IF answered THEN st.wallet[tok] ELSE 0
        st1 == [st EXCEPT !.acts[k].no_balance = ~answered]
    IN IF raw_amount <= 0 THEN {PhantomClose(st1, k, metrics, time)}
       ELSE UNION {ManageHeld(st1, k, metrics, time, v) : v \in ValueIns}

\* the loop body for the position with index k
ManageOne(st, k, time) ==
    LET tok == st.objs[k].token_address
    IN UNION {IF ~m.ok THEN {st}
              ELSE UNION {ManageBalance(st, k, m, time, a) : a \in BalanceIns} :
                 m \in MetricsIns(tok)}

RECURSIVE ManageFrom(_, _, _, _)
ManageFrom(k, open_positions, st, time) ==
    IF k > Len(st.objs) THEN {st}
    ELSE IF k \in open_positions
         THEN UNION {ManageFrom(k + 1, open_positions, st2, time) : st2 \in ManageOne(st, k, time)}
         ELSE ManageFrom(k + 1, open_positions, st, time)

\* what a process_signal call was given and whether it went on to buy_token
\* (dropped = the addresses its clean-up removed from the tracker)
NoSig == [token |-> "", price |-> 0, buy_ratio |-> 0, liquidity |-> 0, dropped |-> {}, submitted |-> FALSE]
Sig(token_address, price, buy_ratio, liquidity, dropped, submitted) ==
    [token |-> token_address, price |-> price, buy_ratio |-> buy_ratio, liquidity |-> liquidity,
     dropped |-> dropped, submitted |-> submitted]

LiveEv(op, acts) == [op |-> op, acts |-> acts, sig |-> NoSig]
NoLiveActs(n) == ListOf([i \in 1..n |-> LiveNoAct], n)

manage_positions ==
    LET positions == positionsFile
        open_positions == OpenIn(positions)
        start == ManageState(positions, ListOf([i \in 1..Len(positions) |-> Alias(i)], Len(positions)), positions,
                             liveWallet, session, settleLog, NoLiveActs(Len(positions)))
    IN /\ mode = "live"
       /\ IF open_positions = {} THEN UNCHANGED vars
          ELSE \E st \in ManageFrom(1, open_positions, start, now) :
                  /\ st.stats.buys <= MaxBuys
                  /\ positionsFile' = st.file
                  /\ liveWallet' = st.wallet
                  /\ session' = st.stats
                  /\ settleLog' = st.log
                  /\ lev' = LiveEv("manage", st.acts)
                  /\ UNCHANGED <<tracker, now, mode, market, pairVars, exitVars>>

-----------------------------------------------------------------------------
(* process_signal and buy_token *)

NoTrack == [on |-> FALSE, first_seen |-> 0, signal_count |-> 0, peak_price |-> 0, current_price |-> 0]

\* the entry score of a tracked signal
EntryScore(tracked, buy_ratio, time) ==
    LET age_mins == time - tracked.first_seen
        dip(pct) == /\ tracked.peak_price > 0
                    /\ (tracked.peak_price - tracked.current_price) * 100 >= pct * tracked.peak_price
    IN (IF age_mins >= SIGNAL_MIN_AGE_MINS THEN 30 ELSE IF age_mins >= 5 THEN 15 ELSE 0)
       + (IF dip(DIP_FROM_PEAK_PCT) THEN 40 ELSE IF dip(MIN_DIP_PCT) THEN 25 ELSE 0)
       + (IF buy_ratio >= 20 THEN 25 ELSE IF buy_ratio >= 15 THEN 15 ELSE 0)
       + (IF tracked.signal_count >= 3 THEN 15 ELSE 0)

\* sol_amount of the step-1 buy
EntrySol(positions, sol_balance) ==
    LET open_positions == OpenIn(positions)
        usable_balance == Max(0, sol_balance - MIN_FEE_RESERVE)
        \* hundredths of a unit
        budget == usable_balance * WALLET_UTILIZATION
        used == SumSeq([i \in 1..Len(positions) |->
                          IF i \in open_positions THEN positions[i].sol_amount ELSE 0])
        available == Max(0, budget - used * 100)
        remaining_slots == Max(1, MAX_OPEN_TRADES - Cardinality(open_positions))
        sol_amount == Min(MAX_POSITION_SOL * 100, available \div remaining_slots)
    IN (sol_amount * DCA_STEPS[1]) \div 10000

\* buy_token: the position it returns (status "" = None) and the tokens received
buy_token(token_address, trade_type, current_price, market_cap, sol_amount, time, entry_metrics, tx_hash, b) ==
    LET out_amount == LiveQuoteOut(sol_amount, current_price)
        actual_received == IF b.landed THEN out_amount ELSE 0
    IN IF ~b.quote_ok \/ out_amount = 0 \/ ~b.swap_ok \/ actual_received = 0
       THEN NoPosition
       ELSE [LivePosition(token_address, trade_type, current_price, market_cap, sol_amount,
                          actual_received, time, entry_metrics) EXCEPT !.tx_hash = tx_hash]

\* variant: a tracked signal expires when it is older than the window
is_expired_when_older(tracked, time) == tracked.on /\ time - tracked.first_seen > SIGNAL_MAX_AGE_MINS

\* TrackedSignal.is_expired at this time
is_expired(tracked, time) == tracked.on /\ time - tracked.first_seen >= SIGNAL_MAX_AGE_MINS

\* the tracker after the clean-up of expired signals
KeptSignals ==
    [t \in Tokens |-> IF is_expired(tracker[t], now) THEN NoTrack ELSE tracker[t]]

\* the entry of the signalled token after this sighting
TrackedNow(token_address, price) ==
    IF KeptSignals[token_address].on
    THEN [KeptSignals[token_address] EXCEPT
             !.signal_count = @ + 1,
             !.current_price = price,
             !.peak_price = IF price > @ THEN price ELSE @]
    ELSE [on |-> TRUE, first_seen |-> now, signal_count |-> 1,
          peak_price |-> price, current_price |-> price]

\* the checks of process_signal between the tracking and the buy
EntryRefused(token_address, price, buy_ratio, liquidity) ==
    LET positions == positionsFile
        open_positions == OpenIn(positions)
    IN \/ ~KeptSignals[token_address].on
       \/ EntryScore(TrackedNow(token_address, price), buy_ratio, now) < 50
       \/ buy_ratio < MIN_BUY_RATIO
       \/ liquidity < MIN_SIGNAL_LIQUIDITY
       \/ \E i \in open_positions : positions[i].token_address = token_address
       \/ count_trades_for_token(positions, token_address) >= MAX_TRADES_PER_TOKEN
       \/ Cardinality(open_positions) >= MAX_OPEN_TRADES
       \/ EntrySol(positions, get_sol_balance) <= 0

\* variant: the clean-up of expired signals is left out
process_signal_without_cleanup(token_address, price, buy_ratio, liquidity) ==
    LET expired == {t \in Tokens : is_expired(tracker[t], now)}
        kept == tracker
        known == kept[token_address].on
        tracked == IF known
                   THEN [kept[token_address] EXCEPT
                            !.signal_count = @ + 1,
                            !.current_price = price,
                            !.peak_price = IF price > @ THEN price ELSE @]
                   ELSE [on |-> TRUE, first_seen |-> now, signal_count |-> 1,
                         peak_price |-> price, current_price |-> price]
        signals == [kept EXCEPT ![token_address] = tracked]
        positions == positionsFile
        open_positions == OpenIn(positions)
        sol_amount == EntrySol(positions, get_sol_balance)
        refused ==
            \/ ~known
            \/ EntryScore(tracked, buy_ratio, now) < 50
            \/ buy_ratio < MIN_BUY_RATIO
            \/ liquidity < MIN_SIGNAL_LIQUIDITY
            \/ \E i \in open_positions : positions[i].token_address = token_address
            \/ count_trades_for_token(positions, token_address) >= MAX_TRADES_PER_TOKEN
            \/ Cardinality(open_positions) >= MAX_OPEN_TRADES
            \/ sol_amount <= 0
        called(n, submitted) ==
            [LiveEv("signal", NoLiveActs(n)) EXCEPT
                !.sig = Sig(token_address, price, buy_ratio, liquidity, IF price <= 0 THEN {} ELSE expired, submitted)]
    IN /\ mode = "live"
       /\ token_address \in market.signals
       /\ kept[token_address].signal_count < MaxSignals
       /\ IF price <= 0
          THEN \* "if not token_address or price <= 0: return False"
               /\ lev' = called(Len(positions), FALSE)
               /\ UNCHANGED <<tracker, positionsFile, liveWallet, session, settleLog, now, mode, market, pairVars, exitVars>>
          ELSE IF refused
          THEN /\ tracker' = signals
               /\ lev' = called(Len(positions), FALSE)
               /\ UNCHANGED <<positionsFile, liveWallet, session, settleLog, now, mode, market, pairVars, exitVars>>
          ELSE \E entry_metrics \in MetricsIns(token_address), b \in LiveBuyIns :
                  LET pos == buy_token(token_address, TypeOf(token_address), price, price,
                                       sol_amount, now, entry_metrics, Len(positions) + 1, b)
                  IN /\ tracker' = [signals EXCEPT ![token_address] = NoTrack]
                     /\ IF pos.status = "OPEN"
                        THEN /\ positionsFile' = Append(positions, pos)
                             /\ liveWallet' = [liveWallet EXCEPT ![token_address] = @ + pos.token_amount]
                             /\ session' = update_session_buy(session)
                        ELSE UNCHANGED <<positionsFile, liveWallet, session>>
                     /\ lev' = called(Len(positionsFile'), TRUE)
                     /\ UNCHANGED <<settleLog, now, mode, market, pairVars, exitVars>>

process_signal(token_address, price, buy_ratio, liquidity) ==
    LET expired == {t \in Tokens : is_expired(tracker[t], now)}
        kept == KeptSignals
        tracked == TrackedNow(token_address, price)
        signals == [kept EXCEPT ![token_address] = tracked]
        positions == positionsFile
        sol_amount == EntrySol(positions, get_sol_balance)
        refused == EntryRefused(token_address, price, buy_ratio, liquidity)
        called(n, submitted) ==
            [LiveEv("signal", NoLiveActs(n)) EXCEPT
                !.sig = Sig(token_address, price, buy_ratio, liquidity, IF price <= 0 THEN {} ELSE expired, submitted)]
    IN /\ mode = "live"
       /\ token_address \in market.signals
       /\ kept[token_address].signal_count < MaxSignals
       /\ IF price <= 0
          THEN \* "if not token_address or price <= 0: return False"
               /\ lev' = called(Len(positions), FALSE)
               /\ UNCHANGED <<tracker, positionsFile, liveWallet, session, settleLog, now, mode, market, pairVars, exitVars>>
          ELSE IF refused
          THEN /\ tracker' = signals
               /\ lev' = called(Len(positions), FALSE)
               /\ UNCHANGED <<positionsFile, liveWallet, session, settleLog, now, mode, market, pairVars, exitVars>>
          ELSE \E entry_metrics \in MetricsIns(token_address), b \in LiveBuyIns :
                  LET pos == buy_token(token_address, TypeOf(token_address), price, price,
                                       sol_amount, now, entry_metrics, Len(positions) + 1, b)
                  IN /\ tracker' = [signals EXCEPT ![token_address] = NoTrack]
                     /\ IF pos.status = "OPEN"
                        THEN /\ positionsFile' = Append(positions, pos)
                             /\ liveWallet' = [liveWallet EXCEPT ![token_address] = @ + pos.token_amount]
                             /\ session' = update_session_buy(session)
                        ELSE UNCHANGED <<positionsFile, liveWallet, session>>
                     /\ lev' = called(Len(positionsFile'), TRUE)
                     /\ UNCHANGED <<settleLog, now, mode, market, pairVars, exitVars>>

-----------------------------------------------------------------------------
(* sync_positions *)

\* a CLOSED position whose exit lies inside the 24-hour window
RecentClosed(pos, time) ==
    pos.status = "CLOSED" /\ pos.exit_time >= 0 /\ pos.exit_time > time - 24 * 60

\* variant: a CLOSED position with a balance is opened again whenever it was closed
sync_one_any_age(pos, raw_balance, metrics, time) ==
    IF pos.status = "OPEN" /\ raw_balance = 0
    THEN [pos EXCEPT !.status = "CLOSED", !.exit_price = metrics.price, !.exit_time = time,
                     !.exit_tx = "SYNC_SOLD",
                     !.pnl_percent = PricePnl(metrics.price, pos.entry_price)]
    ELSE IF pos.status = "CLOSED" /\ raw_balance > 0
    THEN [pos EXCEPT !.status = "OPEN", !.exit_price = 0, !.exit_time = -1, !.exit_tx = "",
                     !.pnl_percent = 0, !.token_amount = raw_balance]
    ELSE pos

\* the pass over one position: an OPEN one with no balance is closed, a
\* recently CLOSED one with a balance is opened again
SyncOne(pos, raw_balance, metrics, time) ==
    IF pos.status = "OPEN" /\ raw_balance = 0
    THEN [pos EXCEPT !.status = "CLOSED", !.exit_price = metrics.price, !.exit_time = time,
                     !.exit_tx = "SYNC_SOLD",
                     !.pnl_percent = PricePnl(metrics.price, pos.entry_price)]
    ELSE IF RecentClosed(pos, time) /\ raw_balance > 0
    THEN [pos EXCEPT !.status = "OPEN", !.exit_price = 0, !.exit_time = -1, !.exit_tx = "",
                     !.pnl_percent = 0, !.token_amount = raw_balance]
    ELSE pos

\* the positions sync_positions looks the balance up for, and what the lookup
\* can do
SyncBalanceIns(pos, time) ==
    IF pos.status = "OPEN" \/ RecentClosed(pos, time) THEN BalanceIns ELSE {TRUE}

\* the pass from position k on: the list it leaves, and the positions whose
\* balance lookup failed
RECURSIVE SyncFrom(_, _, _, _, _)
SyncFrom(k, positions, failed, wallet, time) ==
    IF k > Len(positions) THEN {[positions |-> positions, failed |-> failed]}
    ELSE UNION {UNION {SyncFrom(k + 1,
                                [positions EXCEPT ![k] =
                                    SyncOne(@, IF a THEN wallet[positions[k].token_address] ELSE 0,
                                            m, time)],
                                IF a THEN failed ELSE failed \cup {k},
                                wallet, time) :
                          m \in IF /\ positions[k].status = "OPEN"
                                   /\ (~a \/ wallet[positions[k].token_address] = 0)
                                THEN MetricsIns(positions[k].token_address) ELSE {NoMetrics}} :
                   a \in SyncBalanceIns(positions[k], time)}

SyncActs(before, after, failed) ==
    ListOf([i \in 1..Len(before) |->
               [LiveNoAct EXCEPT !.data = TRUE,
                                 !.phantom = before[i].status = "OPEN" /\ after[i].status = "CLOSED",
                                 !.reopened = before[i].status = "CLOSED" /\ after[i].status = "OPEN",
                                 !.no_balance = i \in failed]],
           Len(before))

sync_positions ==
    /\ mode = "live"
    /\ "sync" \in market.ops
    /\ \E r \in SyncFrom(1, positionsFile, {}, liveWallet, now) :
          /\ positionsFile' = r.positions
          /\ lev' = LiveEv("sync", SyncActs(positionsFile, r.positions, r.failed))
          /\ UNCHANGED <<liveWallet, session, settleLog, tracker, now, mode, market, pairVars, exitVars>>

-----------------------------------------------------------------------------
(* The environment of the live trader *)

\* time passes between two operations
Sleep ==
    /\ mode = "live"
    /\ \E t \in market.times : t > now /\ now' = t
    /\ lev' = LiveEv("sleep", NoLiveActs(Len(positionsFile)))
    /\ UNCHANGED <<positionsFile, liveWallet, session, settleLog, tracker, mode, market, pairVars, exitVars>>

\* the tokens of an OPEN position leave the wallet without the trader (sold by hand)
TokensGone(tok) ==
    /\ mode = "live"
    /\ "external" \in market.ops
    /\ liveWallet[tok] > 0
    /\ \E i \in OpenIn(positionsFile) : positionsFile[i].token_address = tok
    /\ liveWallet' = [liveWallet EXCEPT ![tok] = 0]
    /\ lev' = LiveEv("external", NoLiveActs(Len(positionsFile)))
    /\ UNCHANGED <<positionsFile, session, settleLog, tracker, now, mode, market, pairVars, exitVars>>

-----------------------------------------------------------------------------
(* The initial state and the next-state relation *)

\* the positions the live trader holds when it starts: bought by buy_token at
\* "1.00" with the step-1 amount, in the order of market.held
HeldPosition(tok) ==
    LivePosition(tok, TypeOf(tok), 10000, 10000, EntrySol(<<>>, SolBalance), LiveQuoteOut(EntrySol(<<>>, SolBalance), 10000),
                 0, Metrics(10000, CalmFlow))

NoExitIn == [pos |-> NoPosition, pnl |-> 0, metrics |-> NoMetrics, now |-> 0]

PairInit ==
    /\ slotsFile = ListOf([i \in Slots |-> EmptySlot], LastSlot)
    /\ \E per \in StartPerSlot :
          /\ budgetsFile = ListOf([i \in Slots |-> SlotBudget(per)], LastSlot)
          /\ BUDGETS_CACHE = ListOf([i \in Slots |-> SlotBudget(per)], LastSlot)
    /\ pairHistory = [t \in Tokens |-> <<>>]
    /\ walletTok = [t \in Tokens |-> 0]
    /\ closeLog = ListOf([i \in Slots |-> <<>>], LastSlot)
    /\ ev = NoActs
    /\ loop = NoLoop

LiveInit ==
    /\ positionsFile = ListOf([i \in 1..Len(market.held) |->
                                  [HeldPosition(market.held[i]) EXCEPT !.tx_hash = i]],
                              Len(market.held))
    /\ liveWallet = [t \in Tokens |->
                        IF \E i \in 1..Len(market.held) : market.held[i] = t
                        THEN HeldPosition(t).token_amount ELSE 0]
    /\ tracker = [t \in Tokens |-> NoTrack]
    /\ session = NoStats
    /\ settleLog = <<>>
    /\ now = 0
    /\ lev = LiveEv("init", NoLiveActs(Len(market.held)))

Init ==
    /\ \/ mode = "pair" /\ market \in Markets
       \/ mode = "live" /\ market \in LiveMarkets
    /\ PairInit
    /\ LiveInit
    /\ exitIn = NoExitIn
    /\ exitOut = ""

\* the prices and the liquidity the scanner's signals carry
SignalPrices(tok) == PriceOf(tok) \cup (IF "noprice" \in market.faults THEN {0} ELSE {})
SignalLiquidities ==
    {SignalLiquidity} \cup (IF "thin" \in market.faults THEN {ThinLiquidity} ELSE {})

\* the scanner hands a BUY signal to process_signal
Signal ==
    \E t \in Tokens : \E p \in SignalPrices(t), r \in market.ratios, l \in SignalLiquidities :
        process_signal(t, p, r, l)

\* pair_trader.py: the trading loop and the operator's commands
NextPair ==
    \/ run_pair_trader
    \/ Command

\* live_trader.py: the position manager, the scanner's signals, the manual sync
\* and the environment
NextLive ==
    \/ manage_positions
    \/ Signal
    \/ sync_positions
    \/ Sleep
    \/ \E t \in Tokens : TokensGone(t)

Next ==
    \/ NextPair
    \/ NextLive

Spec == Init /\ [][Next]_vars

\* the runs of one program
InitPair == mode = "pair" /\ Init
InitLive == mode = "live" /\ Init

\* the runs of the signal handler next to the position manager
InitSignal ==
    /\ mode = "live" /\ market \in SignalMarkets
    /\ PairInit
    /\ LiveInit
    /\ exitIn = NoExitIn
    /\ exitOut = ""

NextSignal ==
    \/ Signal
    \/ manage_positions
    \/ Sleep

SpecSignal == InitSignal /\ [][NextSignal]_vars

SpecPair == InitPair /\ [][NextPair]_vars

\* an iteration of the loop in which every price lookup is answered, with price p
TickAtPrice(p) ==
    /\ run_pair_trader
    /\ \A i \in Slots : slotsFile[i].status # "empty" => ev'[i].price = p

\* the runs of the pair trader in which the loop keeps ticking (while True ...
\* asyncio.sleep(30)), the price lookups keep being answered and the token
\* keeps coming back to its high and to the price below it: it dips, recovers
\* and dips again (1.13, 1.00, 1.13, 1.08) while swaps can fail or not land
FairPrices == {11300, 10800}
FairMarkets == { PairWorld(FairPrices \cup {10000}, {}, {"net"}, {}) }

InitFair ==
    /\ mode = "pair" /\ market \in FairMarkets
    /\ PairInit
    /\ LiveInit
    /\ exitIn = NoExitIn
    /\ exitOut = ""

NextFair ==
    \/ run_pair_trader
    \/ \E t \in Tokens : cmd_trade(t)

SpecPairFair == InitFair /\ [][NextFair]_vars /\ \A p \in FairPrices : SF_vars(TickAtPrice(p))

\* the runs of the pair trader with the iterations of its loop taken step by
\* step, the operator's commands in between, and the process stopping
\*   1: a token that falls after the entry (1.20, 1.00, 0.80)
LoopMarkets ==
    { PairWorld({12000, 10000, 8000}, {}, {}, {}) }

InitLoop ==
    /\ mode = "pair" /\ market \in LoopMarkets
    /\ PairInit
    /\ LiveInit
    /\ exitIn = NoExitIn
    /\ exitOut = ""

\* the points at which a command can run next to the loop, both being
\* coroutines of one event loop: while the loop sleeps between two iterations,
\* and while an iteration waits for the price of the slot it is at (an empty
\* slot is passed without waiting)
Suspended ==
    \/ loop.at = 0
    \/ loop.at \in Slots /\ loop.slots[loop.at].status # "empty"

NextLoop ==
    \/ load_slots
    \/ process_next_slot
    \/ save_slots
    \/ Restart
    \/ Suspended /\ \E t \in Tokens : cmd_trade(t)
    \/ Suspended /\ \E a \in CmdArgs : cmd_cancel(a)
    \/ Suspended /\ \E a \in CmdArgs : cmd_close(a)

SpecLoop == InitLoop /\ [][NextLoop]_vars
SpecLive == InitLive /\ [][NextLive]_vars

-----------------------------------------------------------------------------
(* check_exit_conditions on its own: every input of the bounded domain *)

ExitTypes == {"QUICK", "MOMENTUM", "GEM", "RANGE", "OTHER"}
ExitSteps == 0..3
ExitPnls == {-8500, -8400, -3000, -2900, -1600, -1500, -1100, -1000, -600, -500,
             400, 500, 600, 800, 900, 2000, 2500}
ExitMaxPnls == {0, 1200, 1500, 1800, 3000}
ExitHeld == {4, 5, 15, 16, 121, 1441, 2881}
ExitFlows == {[vol_5m |-> 199, buys_5m |-> 10, sells_5m |-> 21],
              [vol_5m |-> 199, buys_5m |-> 10, sells_5m |-> 10],
              [vol_5m |-> 200, buys_5m |-> 10, sells_5m |-> 15],
              [vol_5m |-> 200, buys_5m |-> 10, sells_5m |-> 21],
              [vol_5m |-> 200, buys_5m |-> 10, sells_5m |-> 10]}
ExitEntryVols == {0, 1000}

\* (max_mc, metrics or None): manage_positions raises max_mc to the current
\* market cap before it calls the function
ExitMarkets ==
    {<<1000, NoMetrics>>, <<0, [Metrics(0, CalmFlow) EXCEPT !.price = 10000]>>}
    \cup {<<1000, [Metrics(mc, f) EXCEPT !.price = 10000]>> : mc \in {849, 850}, f \in ExitFlows}

\* a position as check_exit_conditions reads it
ExitArg(trade_type, dca_step, max_pnl, entry_vol, max_mc) ==
    [HeldPosition("A") EXCEPT !.trade_type = trade_type, !.dca_step = dca_step,
                              !.max_pnl_percent = max_pnl, !.entry_vol_5m = entry_vol,
                              !.max_mc = max_mc]

\* the inputs: every combination of the domains
InitExit ==
    /\ mode = "exit"
    /\ market = CHOOSE w \in LiveMarkets : w.held = <<>>
    /\ PairInit
    /\ LiveInit
    /\ \E ty \in ExitTypes, st \in ExitSteps, mx \in ExitMaxPnls, pnl \in ExitPnls,
          held \in ExitHeld, vol \in ExitEntryVols, mm \in ExitMarkets :
            /\ exitIn = [pos |-> ExitArg(ty, st, mx, vol, mm[1]), pnl |-> pnl,
                         metrics |-> mm[2], now |-> held]
    /\ exitOut = ""

\* one evaluation of the function
Evaluate ==
    /\ mode = "exit"
    /\ exitOut = ""
    /\ exitOut' = check_exit_conditions(exitIn.pos, exitIn.pnl, exitIn.metrics, exitIn.now)
    /\ UNCHANGED <<exitIn, mode, market, pairVars, liveVars>>

NextExit == Evaluate

SpecExit == InitExit /\ [][NextExit]_vars

-----------------------------------------------------------------------------
(* Budget conservation and framing (pair trader) *)

Budget(i) == BUDGETS_CACHE[i]

C1_WitnessSequence ==
    /\ mode = "pair"
    /\ \E i \in Slots : /\ Len(closeLog[i]) = 2
                         /\ closeLog[i][1] > 0 /\ closeLog[i][2] < 0

\* a step that re-initialises the budgets (cmd_resetbudget)
BudgetReset ==
    /\ "resetbudget" \in market.ops
    /\ slotsFile' = slotsFile
    /\ \E per \in PerSlotChoices : BUDGETS_CACHE' = [i \in Slots |-> SlotBudget(per)]

\* C2: in every step of the trader that is not a budget re-initialisation, a
\* slot's budget changes only if that step settled a close of the slot: a ratchet,
\* a step-1 entry, a DCA fill, a failed buy and a failed sell leave it unchanged.
C2_BudgetFrame ==
    [][mode = "pair" /\ ~BudgetReset =>
          \A i \in Slots :
              \/ ev'[i].sell = "ok" /\ slotsFile[i].status = "open"
              \/ BUDGETS_CACHE'[i] = BUDGETS_CACHE[i] /\ budgetsFile'[i] = budgetsFile[i]]_vars

\* a slot is fully deployed after a failed sell, with an untouched budget
C2_Witness ==
    /\ mode = "pair"
    /\ \E i \in Slots : /\ slotsFile[i].status = "open"
                         /\ slotsFile[i].dca_step = 3
                         /\ ev[i].sell = "failed"
                         /\ Budget(i) = SlotBudget(Budget(i).start_budget_sol)

-----------------------------------------------------------------------------
(* Monotonic DCA and fixed trigger prices *)

\* slot i holds the same trade before and after the step
SlotStaysOpen(i) == slotsFile[i].status = "open" /\ slotsFile'[i].status = "open"

\* record i of the positions file is the same OPEN position before and after the step
PositionStaysOpen(i) ==
    /\ i <= Len(positionsFile')
    /\ positionsFile[i].status = "OPEN" /\ positionsFile'[i].status = "OPEN"
    /\ positionsFile'[i].token_address = positionsFile[i].token_address
    /\ positionsFile'[i].tx_hash = positionsFile[i].tx_hash

\* dca_step goes from old to new in one step, with or without a DCA buy that filled
DcaStepMoves(old, new, filled) ==
    /\ new \in 1..3
    /\ new >= old
    /\ new <= old + 1
    /\ new > old => filled

\* the pair trader's part of C3
PairMonotonicDca ==
    \A i \in Slots :
        SlotStaysOpen(i) =>
            DcaStepMoves(slotsFile[i].dca_step, slotsFile'[i].dca_step,
                         ev'[i].buy = slotsFile'[i].dca_step /\ ev'[i].buy_ok)

\* the live trader's part of C3
LiveMonotonicDca ==
    \A i \in 1..Len(positionsFile) :
        PositionStaysOpen(i) =>
            DcaStepMoves(positionsFile[i].dca_step, positionsFile'[i].dca_step,
                         \E k \in 1..Len(lev'.acts) : lev'.acts[k].dca = positionsFile'[i].dca_step)

\* C3: while a slot or a position is open its dca_step never decreases: it stays
\* within 1..3, changes only by +1 and only in a step whose DCA buy went through,
\* and one tick fills at most one DCA step of it.
C3_MonotonicDca ==
    [][/\ mode = "pair" => PairMonotonicDca
       /\ mode = "live" => LiveMonotonicDca]_vars

\* the same statement for the pair trader alone
C3_PairOnly == [][mode = "pair" => PairMonotonicDca]_vars

\* C4: the step-2 and step-3 trigger prices of an open slot are the tier's fixed
\* percentage drops from the entry price of the step-1 fill, and no step changes
\* entry_price, step2_price or step3_price of a slot that stays open, nor the
\* entry_price of a live position that stays OPEN (its DCA triggers are fixed
\* percentages of that entry price), whatever happens to the running average.
C4_TriggerPricesFixed ==
    [][/\ mode = "pair" =>
            \A i \in Slots :
                /\ slotsFile'[i].status = "open" =>
                      /\ slotsFile'[i].step2_price =
                            DropPrice(slotsFile'[i].entry_price, get_dca_drops(slotsFile'[i].entry_mc)[1])
                      /\ slotsFile'[i].step3_price =
                            DropPrice(slotsFile'[i].entry_price, get_dca_drops(slotsFile'[i].entry_mc)[2])
                /\ SlotStaysOpen(i) =>
                      /\ slotsFile'[i].entry_price = slotsFile[i].entry_price
                      /\ slotsFile'[i].step2_price = slotsFile[i].step2_price
                      /\ slotsFile'[i].step3_price = slotsFile[i].step3_price
       /\ mode = "live" =>
            \A i \in 1..Len(positionsFile) :
                PositionStaysOpen(i) => positionsFile'[i].entry_price = positionsFile[i].entry_price]_vars

\* a slot is fully deployed: two DCA fills moved the average away from the entry price
C4_Witness ==
    /\ mode = "pair"
    /\ \E i \in Slots : /\ slotsFile[i].status = "open"
                         /\ slotsFile[i].dca_step = 3
                         /\ slotsFile[i].dca_avg_price # Rat(slotsFile[i].entry_price, 1)

\* a live position has filled a DCA step: its average is below its entry price
C4_WitnessLive ==
    /\ mode = "live"
    /\ \E i \in 1..Len(positionsFile) :
          /\ positionsFile[i].status = "OPEN"
          /\ positionsFile[i].dca_step >= 2
          /\ positionsFile[i].dca_avg_price # Rat(positionsFile[i].entry_price, 1)

-----------------------------------------------------------------------------
(* The reference price of a watching slot and the step-1 entry *)

\* slot i watches the same token before and after the step
SlotStaysWatching(i) ==
    /\ slotsFile[i].status = "watching" /\ slotsFile'[i].status = "watching"
    /\ slotsFile'[i].token_address = slotsFile[i].token_address

\* C5: while a slot stays watching, watch_price never decreases, and after a tick
\* that saw a valid price it is the larger of its old value and that price, hence
\* the maximum of the prices seen since watching began.
C5_WatchPriceRatchet ==
    [][mode = "pair" =>
          \A i \in Slots :
              SlotStaysWatching(i) =>
                  /\ slotsFile'[i].watch_price >= slotsFile[i].watch_price
                  /\ slotsFile'[i].watch_price = Max(slotsFile[i].watch_price, ev'[i].price)]_vars

\* a tick saw a price below the reference price that an earlier tick had raised
C5_Witness ==
    /\ mode = "pair"
    /\ \E i \in Slots : /\ slotsFile[i].status = "watching"
                         /\ slotsFile[i].watch_price = 12000
                         /\ ev[i].price = 11000

\* the dip of price p from the reference price ratcheted with p is at least dip_pct tenths of a percent
DipAtLeast(watch_price, p, dip_pct) ==
    (Max(watch_price, p) - p) * 1000 >= dip_pct * Max(watch_price, p)

-----------------------------------------------------------------------------
(* One settlement per entry *)

\* the pair trader's part of C7: a step settles a slot at most once, and only a
\* slot that was open; a slot that was not open is not sold and keeps its budget
PairSettlesOnce ==
    ~BudgetReset =>
        \A i \in Slots :
            /\ Len(closeLog'[i]) <= Len(closeLog[i]) + 1
            /\ slotsFile[i].status # "open" =>
                  /\ ev'[i].sell = "none"
                  /\ closeLog'[i] = closeLog[i]
                  /\ BUDGETS_CACHE'[i] = BUDGETS_CACHE[i] /\ budgetsFile'[i] = budgetsFile[i]

\* the live trader's part of C7: an entry the session stats were updated for is
\* not settled again by a later tick
LiveSettlesOnce ==
    \A k \in (Len(settleLog) + 1)..Len(settleLog') :
        \A j \in 1..(k - 1) : settleLog'[j] # settleLog'[k]

\* C7: once the exit of a trade has settled (slot re-armed, position CLOSED),
\* further ticks on the same market data perform no second sell and no second
\* budget or session-stat update for it: each entry is settled at most once.
\* The live part is stated for runs of ticks alone (no manual sync_positions).
C7_SettledOnce ==
    [][/\ mode = "pair" => PairSettlesOnce
       /\ (mode = "live" /\ "sync" \notin market.ops) => LiveSettlesOnce]_vars

\* the same statement for the pair trader alone
C7_PairOnly == [][mode = "pair" => PairSettlesOnce]_vars

-----------------------------------------------------------------------------
(* The exit rules of check_exit_conditions as an ordered table *)

\* the condition of one rule, as the function tests it
RuleMatches(rule, pos, pnl, metrics, time) ==
    LET config == TRADE_CONFIGS(pos.trade_type)
        held_mins == time - pos.entry_time
        settled == metrics.ok /\ held_mins >= 5
    IN CASE rule = "TARGET" -> pnl >= config.target
         [] rule = "TRAIL" -> pos.max_pnl_percent >= 1500 /\ pnl <= pos.max_pnl_percent - 600
         [] rule = "PROFIT_LOCK" -> pos.max_pnl_percent >= 1200 /\ pnl <= 800
         [] rule = "EMERGENCY_SAVE" -> pos.max_pnl_percent >= 1800 /\ pnl <= 600
         [] rule = "DCA_TIMEOUT" -> held_mins > 1440
         [] rule \in {"STOP", "RANGE STOP"} -> pnl <= config.stop
         [] rule = "VOL_DECAY" ->
                /\ settled /\ pos.entry_vol_5m > 0
                /\ metrics.vol_5m * 100 < pos.entry_vol_5m * VOL_DECAY_THRESHOLD
                /\ pnl < -500
         [] rule = "DUMP" -> settled /\ metrics.sells_5m > metrics.buys_5m * 2 /\ pnl < -1000
         [] rule = "MC_STALL" ->
                /\ settled /\ pos.max_mc > 0 /\ metrics.mc * 100 < pos.max_mc * 85
                /\ held_mins > 15 /\ pnl < 500
         [] rule = "QUICK_CUT" ->
                /\ settled /\ pos.trade_type = "QUICK" /\ held_mins > 15
                /\ pnl < -1500 /\ BuyRatioBelow08(metrics)
         [] rule \in {"TIMEOUT", "RANGE TIMEOUT"} -> held_mins > config.timeout
         [] OTHER -> FALSE

\* the first rule of the table that matches, "NONE" if none does
RECURSIVE FirstMatch(_, _, _, _, _)
FirstMatch(rules, pos, pnl, metrics, time) ==
    IF rules = <<>> THEN "NONE"
    ELSE IF RuleMatches(Head(rules), pos, pnl, metrics, time) THEN Head(rules)
    ELSE FirstMatch(Tail(rules), pos, pnl, metrics, time)

ProfitRules == <<"TARGET", "TRAIL", "PROFIT_LOCK", "EMERGENCY_SAVE">>

\* the rules that fire only for a loss or after a holding time
LossRules == {"STOP", "RANGE STOP", "VOL_DECAY", "DUMP", "MC_STALL", "QUICK_CUT",
              "TIMEOUT", "RANGE TIMEOUT"}

\* target, trail, profit-lock, emergency-save and, once fully deployed, stop-loss,
\* volume-decay, dump-detection, stagnation, timeout; before that the absolute timeout
ListedRules(pos) ==
    ProfitRules \o (IF CurrentStep(pos) >= 3
                    THEN <<"STOP", "VOL_DECAY", "DUMP", "MC_STALL", "TIMEOUT">>
                    ELSE <<"DCA_TIMEOUT">>)

\* the table the function goes through: a fully deployed RANGE trade has its own
\* stop and timeout and no momentum rules, the other types have the quick cut
\* between the stall rule and the timeout
TableRules(pos) ==
    ProfitRules \o (IF CurrentStep(pos) < 3 THEN <<"DCA_TIMEOUT">>
                    ELSE IF pos.trade_type = "RANGE" THEN <<"RANGE STOP", "RANGE TIMEOUT">>
                    ELSE <<"STOP", "VOL_DECAY", "DUMP", "MC_STALL", "QUICK_CUT", "TIMEOUT">>)

\* the rule of a result, without the trade type's prefix
RuleOf(result) ==
    IF result = "RANGE STOP" THEN "STOP"
    ELSE IF result = "RANGE TIMEOUT" THEN "TIMEOUT"
    ELSE result

Evaluated == mode = "exit" /\ exitOut # ""

\* C8: for a position with dca_step < 3 check_exit_conditions never returns a
\* loss-based exit (stop, volume decay, dump, stall, quick cut, per-type timeout),
\* whatever the PnL, the peak PnL, the holding time and the metrics: the result is
\* none, target, trail, profit lock, emergency save or the absolute timeout.
C8_NoLossExitBeforeStep3 ==
    (Evaluated /\ exitIn.pos.dca_step < 3) =>
        /\ exitOut \notin LossRules
        /\ exitOut \in {"NONE", "TARGET", "TRAIL", "PROFIT_LOCK", "EMERGENCY_SAVE", "DCA_TIMEOUT"}

\* a position at step 2 far below the stop, with dying volume, held longer than
\* its type's timeout: no exit
C8_Witness ==
    /\ Evaluated
    /\ exitIn.pos.dca_step = 2
    /\ exitIn.pnl <= TRADE_CONFIGS(exitIn.pos.trade_type).stop
    /\ RuleMatches("VOL_DECAY", exitIn.pos, exitIn.pnl, exitIn.metrics, exitIn.now)
    /\ RuleMatches("TIMEOUT", exitIn.pos, exitIn.pnl, exitIn.metrics, exitIn.now)
    /\ exitOut = "NONE"

\* C10 as stated: the result is the first matching rule in the order target, trail,
\* profit-lock, emergency-save and, once fully deployed, stop-loss, volume-decay,
\* dump-detection, stagnation, timeout; a PnL at or above the target gives the
\* target exit.
C10_ListedOrder ==
    Evaluated =>
        /\ RuleOf(exitOut) = FirstMatch(ListedRules(exitIn.pos), exitIn.pos, exitIn.pnl,
                                        exitIn.metrics, exitIn.now)
        /\ exitIn.pnl >= TRADE_CONFIGS(exitIn.pos.trade_type).target => exitOut = "TARGET"

\* C10: the result is the first matching rule of the table: target, trail,
\* profit-lock, emergency-save; then, before full deployment, only the absolute
\* timeout; for a fully deployed RANGE trade its stop and its timeout; for the
\* other types stop-loss, volume-decay, dump-detection, stagnation, quick cut
\* (QUICK trades), timeout. A PnL at or above the target gives the target exit
\* whatever else matches.
C10_RuleOrder ==
    Evaluated =>
        /\ exitOut = FirstMatch(TableRules(exitIn.pos), exitIn.pos, exitIn.pnl,
                                exitIn.metrics, exitIn.now)
        /\ exitIn.pnl >= TRADE_CONFIGS(exitIn.pos.trade_type).target => exitOut = "TARGET"

\* a quick cut of a fully deployed QUICK trade while the timeout matches too
C10_Witness ==
    /\ Evaluated
    /\ exitOut = "QUICK_CUT"
    /\ RuleMatches("TIMEOUT", exitIn.pos, exitIn.pnl, exitIn.metrics, exitIn.now)

-----------------------------------------------------------------------------
(* Reconciliation of positions without a balance *)

\* the step is a reconciliation pass: manage_positions or sync_positions
ReconciliationPass == lev'.op \in {"manage", "sync"}

\* record i is OPEN and the wallet holds none of its token
Phantom(i) ==
    /\ positionsFile[i].status = "OPEN"
    /\ liveWallet[positionsFile[i].token_address] = 0

\* record i was closed for its zero balance
ClosedForZeroBalance(pos) ==
    pos.status = "CLOSED" /\ pos.exit_tx \in {"BALANCE_ZERO", "SYNC_SOLD"}

\* a pass closes record i, a phantom, without touching the session stats for it
ClosesPhantom(i) ==
    /\ ClosedForZeroBalance(positionsFile'[i])
    /\ \A k \in (Len(settleLog) + 1)..Len(settleLog') :
          settleLog'[k] # positionsFile[i].tx_hash

\* a pass leaves record i, closed for its zero balance, as it is
KeepsClosed(i) ==
    /\ positionsFile'[i] = positionsFile[i]
    /\ \A k \in (Len(settleLog) + 1)..Len(settleLog') :
          settleLog'[k] # positionsFile[i].tx_hash

\* C9: one reconciliation pass (manage_positions or sync_positions) over an OPEN
\* position whose wallet balance is zero marks it CLOSED with the zero-balance
\* reason, and a second pass over the same balance changes nothing further: no
\* second close, no re-open, no stat update.
C9_PhantomClosedOnce ==
    [][(mode = "live" /\ ReconciliationPass) =>
          \A i \in 1..Len(positionsFile) :
              /\ Phantom(i) => ClosesPhantom(i)
              /\ (ClosedForZeroBalance(positionsFile[i])
                    /\ liveWallet[positionsFile[i].token_address] = 0) => KeepsClosed(i)]_vars

\* the same statement for the passes that obtained the data of the position
\* (manage_positions skips a position whose metrics it cannot fetch)
C9_WhenDataFetched ==
    [][(mode = "live" /\ ReconciliationPass) =>
          \A i \in 1..Len(positionsFile) :
              /\ (Phantom(i) /\ (lev'.op = "manage" => lev'.acts[i].data)) => ClosesPhantom(i)
              /\ (ClosedForZeroBalance(positionsFile[i])
                    /\ liveWallet[positionsFile[i].token_address] = 0) => KeepsClosed(i)]_vars

-----------------------------------------------------------------------------
(* A DCA fill and an exit in one tick *)

\* the pair trader's part of C11: the last step did not fill step 2 or 3 of a
\* slot and close the same slot
PairFillExcludesExit ==
    \A i \in Slots : ~(ev[i].buy \in {2, 3} /\ ev[i].buy_ok /\ ev[i].sell = "ok")

\* the live trader's part of C11
LiveFillExcludesExit ==
    \A k \in 1..Len(lev.acts) : ~(lev.acts[k].dca > 0 /\ lev.acts[k].sell \in {"ok", "unconfirmed"})

\* C11: within one tick of one open slot or position a DCA fill and an exit never
\* both happen: a tick that fills step 2 or step 3 does not also close it.
C11_FillExcludesExit ==
    /\ mode = "pair" => PairFillExcludesExit
    /\ mode = "live" => LiveFillExcludesExit

\* the same statement for the live trader alone
C11_LiveOnly == mode = "live" => LiveFillExcludesExit

-----------------------------------------------------------------------------
(* Each DCA step fills once *)

\* slot i is open when the step begins
OpenBefore(i) == slotsFile[i].status = "open"

\* the DCA attempt of a tick follows the slot's step counter: step 2 only from
\* step 1, step 3 only from step 2, nothing from step 3, and a step the counter
\* already reflects is not attempted at any price
StepsInOrder(i) ==
    /\ ev'[i].buy \in {0, 2, 3}
    /\ ev'[i].buy = 2 => slotsFile[i].dca_step = 1 /\ ev'[i].price <= slotsFile[i].step2_price
    /\ ev'[i].buy = 3 => slotsFile[i].dca_step = 2 /\ ev'[i].price <= slotsFile[i].step3_price
    /\ slotsFile[i].dca_step >= 2 => ev'[i].buy # 2
    /\ slotsFile[i].dca_step >= 3 => ev'[i].buy = 0

\* the capital of an open slot is one share per filled step
SharesOnce(slot) ==
    /\ slot.total_sol_invested = slot.step1_sol + slot.step2_sol + slot.step3_sol
    /\ slot.step2_sol > 0 <=> slot.dca_step >= 2
    /\ slot.step3_sol > 0 <=> slot.dca_step >= 3

\* entry at 1.00 with the triggers at 0.85 and 0.65: what a tick at each price attempts
ScenarioSteps(i) ==
    (slotsFile[i].entry_price = 10000 /\ slotsFile[i].step2_price = 8500
        /\ slotsFile[i].step3_price = 6500) =>
        /\ ev'[i].price \in {10000, 9000} => ev'[i].buy = 0
        /\ ev'[i].price = 8000 => ev'[i].buy = (IF slotsFile[i].dca_step = 1 THEN 2 ELSE 0)
        /\ ev'[i].price = 6000 => ev'[i].buy = slotsFile[i].dca_step + 1
                                     \/ (slotsFile[i].dca_step = 3 /\ ev'[i].buy = 0)

\* C12: while a slot is open, step 2 is filled at most once and step 3 at most
\* once, step 3 only after step 2, and a price at or below the trigger of a step
\* that is already filled never fills it again; with the triggers at 0.85 and
\* 0.65 the prices 1.00, 0.90, 0.80, 0.60 fill step 2 once (at 0.80) and step 3
\* once (at 0.60).
C12_StepsFillOnce ==
    [][mode = "pair" =>
          \A i \in Slots :
              /\ OpenBefore(i) => StepsInOrder(i) /\ ScenarioSteps(i)
              /\ slotsFile'[i].status = "open" => SharesOnce(slotsFile'[i])]_vars

\* the scenario's end: entered at 1.00, step 2 filled at 0.80, the tick at 0.60 filled step 3
C12_Witness ==
    /\ mode = "pair"
    /\ \E i \in Slots : /\ slotsFile[i].status = "open"
                         /\ slotsFile[i].entry_price = 10000
                         /\ slotsFile[i].step2_price = 8500 /\ slotsFile[i].step3_price = 6500
                         /\ slotsFile[i].dca_step = 3
                         /\ slotsFile[i].dca_avg_price = Rat(10000 * slotsFile[i].step1_sol + 8000 * slotsFile[i].step2_sol + 6000 * slotsFile[i].step3_sol, slotsFile[i].total_sol_invested)
                         /\ ev[i].price = 6000 /\ ev[i].buy = 3 /\ ev[i].buy_ok

\* the live trader's process_dca_step: a fill of step d + 1 is made from a
\* position object whose counter is d
C12_LiveStepsInOrder ==
    [][mode = "live" =>
          \A k \in 1..Len(lev'.acts) :
              lev'.acts[k].dca > 0 =>
                  /\ k <= Len(positionsFile)
                  /\ CurrentStep(positionsFile[k]) = lev'.acts[k].dca - 1]_vars

-----------------------------------------------------------------------------
(* The trailing exit *)

\* a tick that saw a valid price for slot i, open when the tick began
TickOnOpen(i) == slotsFile[i].status = "open" /\ ev'[i].price > 0

\* the PnL the tick computes: the price against the average price the tick began with
TickPnl(i) == PnlPct(ev'[i].price, slotsFile[i].dca_avg_price)

\* the highest PnL of the slot, this tick included
PeakPnl(i) == Max(slotsFile[i].max_pnl_pct, TickPnl(i))

\* the highest price of the slot, this tick included
PeakPrice(i) == Max(slotsFile[i].peak_price, ev'[i].price)

\* the tick went into _close_slot
TrailFires(i) == ev'[i].sell # "none"

\* the statement in PnL points: armed once the highest PnL has reached 12%, the
\* exit fires exactly at the ticks whose PnL is at most the highest PnL minus 4
C13_TrailOnPnlPoints ==
    [][mode = "pair" =>
          \A i \in Slots :
              TickOnOpen(i) =>
                  (TrailFires(i) <=> PeakPnl(i) >= 12 /\ TickPnl(i) <= PeakPnl(i) - 4)]_vars

\* C13: the trail exit of an open slot never fires before a tick has seen a PnL
\* of at least 12%; once armed it fires at exactly the ticks whose price is at
\* most 96% of the highest price seen since entry, so at the first such tick:
\* entered at 1.00 with the peak at 1.13 it does not fire at 1.09 and fires at 1.08.
C13_TrailBelowPeakPrice ==
    [][mode = "pair" =>
          \A i \in Slots :
              TickOnOpen(i) =>
                  /\ TrailFires(i) <=>
                        /\ slotsFile[i].trail_active \/ TickPnl(i) >= 12
                        /\ ev'[i].price * 100 <= PeakPrice(i) * 96
                  /\ TrailFires(i) => PeakPnl(i) >= 12
                  /\ slotsFile[i].trail_active => slotsFile[i].max_pnl_pct >= 12
                  /\ (slotsFile[i].dca_avg_price = Rat(10000, 1) /\ slotsFile[i].peak_price = 11300) =>
                        /\ ev'[i].price = 10900 => ~TrailFires(i)
                        /\ ev'[i].price = 10800 => TrailFires(i)]_vars

\* the scenario's exit: entered at 1.00, the peak at 1.13, the position sold by the tick at 1.08
C13_Witness ==
    /\ mode = "pair"
    /\ \E i \in Slots : /\ ev[i].price = 10800 /\ ev[i].sell = "ok" /\ ev[i].buy = 0
                         /\ slotsFile[i].status = "watching"
                         /\ 11300 \in PriceOf(slotsFile[i].token_address)
                         /\ Len(closeLog[i]) > 0

-----------------------------------------------------------------------------
(* Re-arming after an exit *)

\* the last trade recorded for a token
LastTrade(history, tok) == history[tok][Len(history[tok])]

\* slot i after a sell that went through: watching the same token, every trade
\* field cleared, the reference price the price fetched after the sell (the exit
\* price when that lookup failed), the entry dip derived from the history that
\* holds the trade just closed
ReArmed(i) ==
    LET old == slotsFile[i]
        tok == old.token_address
        mc_for_dip == IF ev'[i].price_new > 0 THEN McOf(tok) ELSE old.entry_mc
    IN /\ old.status = "open"
       /\ Len(pairHistory'[tok]) = Len(pairHistory[tok]) + 1
       /\ LastTrade(pairHistory', tok).entry_dip_used = old.entry_dip_pct
       /\ slotsFile'[i] =
             [EmptySlot EXCEPT
                !.status = "watching",
                !.token_address = tok,
                !.watch_price = IF ev'[i].price_new > 0 THEN ev'[i].price_new
                                ELSE ev'[i].exit_price,
                !.entry_dip_pct = get_adjusted_entry_dip(pairHistory', tok, mc_for_dip)]

\* C14: whenever a sell succeeds in _close_slot (automatic exit, cmd_close or
\* cmd_closeall) the slot ends the operation watching the same token, with
\* dca_step 0, no invested capital, no tokens, the trail disarmed, the reference
\* price the price fetched after the exit (the exit price when that fetch fails)
\* and entry_dip_pct derived from the trade history that already holds the trade
\* just closed.
C14_ReArmsAfterExit ==
    [][mode = "pair" =>
          \A i \in Slots :
              ev'[i].sell = "ok" =>
                  /\ ReArmed(i)
                  /\ slotsFile'[i].dca_step = 0 /\ slotsFile'[i].total_sol_invested = 0
                  /\ slotsFile'[i].token_amount = 0 /\ ~slotsFile'[i].trail_active]_vars

\* the second losing trade of a token was closed: the history of two trades
\* moves the entry dip of the re-armed slot from 10% to 13%
C14_Witness ==
    /\ mode = "pair"
    /\ \E i \in Slots : /\ ev[i].sell = "ok"
                         /\ slotsFile[i].status = "watching"
                         /\ Len(pairHistory[slotsFile[i].token_address]) = 2
                         /\ slotsFile[i].entry_dip_pct = 130

\* a close whose price lookup failed before the sell and succeeded after it
C14_FreshPrice ==
    /\ mode = "pair"
    /\ \E i \in Slots : /\ ev[i].sell = "ok" /\ ev[i].exit_price = 0
                         /\ slotsFile[i].watch_price = ev[i].price_new
                         /\ slotsFile[i].watch_price > 0

-----------------------------------------------------------------------------
(* Leaving a slot *)

\* the command's argument names a slot that is open
AimedAtOpen(arg) ==
    \E i \in Slots : slotsFile[i].status = "open" /\ ArgMatches(arg, slotsFile[i], i)

\* the step is a cmd_cancel
CancelStep == \E arg \in CmdArgs : cmd_cancel(arg)

-----------------------------------------------------------------------------
(* process_signal: tracking before buying *)

\* the step is a process_signal call
SignalCall == lev'.op = "signal"

\* the address the call was given
Signalled == lev'.sig.token

\* the tracker holds no entry for the address, or one that has reached the maximum age
FirstSighting(t) == ~tracker[t].on \/ now - tracker[t].first_seen >= SIGNAL_MAX_AGE_MINS

\* the entry a first sighting leaves in the tracker
FreshEntry == [on |-> TRUE, first_seen |-> now, signal_count |-> 1,
               peak_price |-> lev'.sig.price, current_price |-> lev'.sig.price]

\* the call bought nothing
NothingBought ==
    /\ ~lev'.sig.submitted
    /\ positionsFile' = positionsFile /\ liveWallet' = liveWallet /\ session' = session

\* the statement for every call: a first sighting buys nothing and is recorded
C16_FirstSightingRecorded ==
    [][(mode = "live" /\ SignalCall /\ FirstSighting(Signalled)) =>
          NothingBought /\ tracker'[Signalled] = FreshEntry]_vars

\* C16: process_signal never submits a buy on a call in which the address is not
\* already in the tracker, whatever the price, the buy ratio and the liquidity of
\* the signal: the first sighting of an address, also the first one after its
\* entry expired or was removed for a buy, buys nothing; with a positive price it
\* is recorded as a new entry, without one the call leaves the tracker as it is.
C16_FirstSightingNeverBuys ==
    [][(mode = "live" /\ SignalCall /\ FirstSighting(Signalled)) =>
          /\ NothingBought
          /\ lev'.sig.price > 0 => tracker'[Signalled] = FreshEntry
          /\ lev'.sig.price <= 0 => tracker' = tracker]_vars

\* an address bought before is sighted again, at a dip, with a strong buy ratio
\* and enough liquidity: it is recorded anew and not bought
C16_Witness ==
    /\ mode = "live" /\ lev.op = "signal" /\ ~lev.sig.submitted
    /\ lev.sig.price = 8800 /\ lev.sig.buy_ratio = 20 /\ lev.sig.liquidity >= MIN_SIGNAL_LIQUIDITY
    /\ \E i \in 1..Len(positionsFile) : positionsFile[i].token_address = lev.sig.token
    /\ tracker[lev.sig.token].on /\ tracker[lev.sig.token].signal_count = 1

\* the first sighting after an entry expired
C16_AfterExpiry ==
    /\ mode = "live" /\ lev.op = "signal" /\ lev.sig.token \in lev.sig.dropped
    /\ tracker[lev.sig.token].on /\ tracker[lev.sig.token].signal_count = 1

-----------------------------------------------------------------------------
(* process_signal: the conditions of a buy *)

\* the tracker entry of the signalled address with this signal counted in
Observed ==
    [tracker[Signalled] EXCEPT !.signal_count = @ + 1,
                               !.current_price = lev'.sig.price,
                               !.peak_price = Max(@, lev'.sig.price)]

\* positions recorded for an address, OPEN or not
Recorded(t) == {i \in 1..Len(positionsFile) : positionsFile[i].token_address = t}

\* C17: process_signal submits a buy only when all of these hold at that call:
\* the entry score is at least 50, the buy ratio at least MIN_BUY_RATIO, the
\* liquidity at least MIN_SIGNAL_LIQUIDITY, no OPEN position exists for the
\* address, fewer than MAX_TRADES_PER_TOKEN positions are recorded for the
\* address, and fewer than MAX_OPEN_TRADES positions are OPEN.
C17_BuyOnlyWhenAllowed ==
    [][(mode = "live" /\ SignalCall /\ lev'.sig.submitted) =>
          /\ EntryScore(Observed, lev'.sig.buy_ratio, now) >= 50
          /\ lev'.sig.buy_ratio >= MIN_BUY_RATIO
          /\ lev'.sig.liquidity >= MIN_SIGNAL_LIQUIDITY
          /\ \A i \in Recorded(Signalled) : positionsFile[i].status # "OPEN"
          /\ Cardinality(Recorded(Signalled)) < MAX_TRADES_PER_TOKEN
          /\ Cardinality(OpenIn(positionsFile)) < MAX_OPEN_TRADES]_vars

\* the second buy of an address: one closed position is recorded for it
C17_Witness ==
    /\ mode = "live" /\ lev.op = "signal" /\ lev.sig.submitted
    /\ Len(positionsFile) = 2
    /\ positionsFile[1].status = "CLOSED" /\ positionsFile[2].status = "OPEN"
    /\ positionsFile[1].token_address = lev.sig.token
    /\ positionsFile[2].token_address = lev.sig.token

\* a signal that clears the score and the filters while two positions are
\* recorded for its address, none of them OPEN, is refused
C17_RefusedByCount ==
    /\ mode = "live" /\ lev.op = "signal" /\ ~lev.sig.submitted
    /\ lev.sig.buy_ratio >= MIN_BUY_RATIO /\ lev.sig.liquidity >= MIN_SIGNAL_LIQUIDITY
    /\ tracker[lev.sig.token].signal_count = 2
    /\ EntryScore(tracker[lev.sig.token], lev.sig.buy_ratio, now) >= 50
    /\ Len(positionsFile) = 2
    /\ \A i \in 1..2 : positionsFile[i].token_address = lev.sig.token /\ positionsFile[i].status = "CLOSED"

\* a signal that clears the score and the filters while four positions are OPEN is refused
C17_RefusedByOpenTrades ==
    /\ mode = "live" /\ lev.op = "signal" /\ ~lev.sig.submitted
    /\ tracker[lev.sig.token].signal_count = 2
    /\ EntryScore(tracker[lev.sig.token], lev.sig.buy_ratio, now) >= 50
    /\ Cardinality(OpenIn(positionsFile)) = MAX_OPEN_TRADES
    /\ \A i \in OpenIn(positionsFile) : positionsFile[i].token_address # lev.sig.token

\* a signal that clears the score by its age and its dip is refused for its buy ratio
C17_RefusedByFilter ==
    /\ mode = "live" /\ lev.op = "signal" /\ ~lev.sig.submitted
    /\ tracker[lev.sig.token].signal_count = 2
    /\ EntryScore(tracker[lev.sig.token], lev.sig.buy_ratio, now) >= 50
    /\ positionsFile = <<>>
    /\ lev.sig.buy_ratio < MIN_BUY_RATIO

-----------------------------------------------------------------------------
(* process_signal: expired signals *)

\* the tracker entries that have reached the maximum age when the call begins
ExpiredEntries ==
    {t \in Tokens : tracker[t].on /\ now - tracker[t].first_seen >= SIGNAL_MAX_AGE_MINS}

\* the call removed every expired entry; the signalled address, if its entry was
\* one of them, is tracked anew as a first sighting
ExpiredDropped ==
    /\ lev'.sig.dropped = ExpiredEntries
    /\ \A t \in ExpiredEntries :
          IF t = Signalled THEN tracker'[t] = FreshEntry ELSE tracker'[t] = NoTrack

\* no buy on an entry that is expired when the call begins
NoBuyOnExpired == lev'.sig.submitted => Signalled \notin ExpiredEntries

\* the statement for every call
C18_DroppedAtNextCall ==
    [][(mode = "live" /\ SignalCall) => ExpiredDropped /\ NoBuyOnExpired]_vars

\* C18: a tracked candidate whose age has reached the maximum window is dropped,
\* whatever its score, by the next process_signal call whose signal carries a
\* positive price (a call without one returns before the clean-up and leaves the
\* tracker as it is), and no call submits a buy on the basis of a tracker entry
\* that is expired when the call begins.
C18_ExpiredNeverBought ==
    [][(mode = "live" /\ SignalCall) =>
          /\ NoBuyOnExpired
          /\ lev'.sig.price > 0 => ExpiredDropped
          /\ lev'.sig.price <= 0 => tracker' = tracker /\ NothingBought]_vars

\* an hour after its first sighting an address is signalled again at a 12% dip
\* with a strong buy ratio: the old entry is dropped, the address tracked anew,
\* nothing bought
C18_Witness ==
    /\ mode = "live" /\ lev.op = "signal" /\ ~lev.sig.submitted
    /\ lev.sig.token \in lev.sig.dropped
    /\ lev.sig.price = 8800 /\ lev.sig.buy_ratio = 20 /\ lev.sig.liquidity >= MIN_SIGNAL_LIQUIDITY
    /\ now = 60 /\ positionsFile = <<>>
    /\ tracker[lev.sig.token] = [on |-> TRUE, first_seen |-> 60, signal_count |-> 1,
                                 peak_price |-> 8800, current_price |-> 8800]

-----------------------------------------------------------------------------
(* Buys and the wallet *)

\* the pair trader: after a buy that changed the slot the wallet holds tokens of
\* the slot's token (unless the same tick sold them)
PairBuysConfirmed ==
    \A i \in Slots :
        (ev'[i].buy_ok /\ ev'[i].sell # "ok") => walletTok'[slotsFile'[i].token_address] > 0

\* the live trader's entry: a position is recorded only with more tokens in the wallet
LiveEntryConfirmed ==
    (SignalCall /\ Len(positionsFile') > Len(positionsFile)) =>
        liveWallet'[Signalled] > liveWallet[Signalled]

\* a position of this token was sold in the pass
SoldInPass(tok) ==
    \E j \in 1..Len(lev'.acts) :
        /\ lev'.acts[j].sell \in {"ok", "unconfirmed"}
        /\ positionsFile[j].token_address = tok

\* the live trader's DCA: a step is recorded only with more tokens in the wallet
LiveDcaConfirmed ==
    lev'.op = "manage" =>
        \A k \in 1..Len(lev'.acts) :
            lev'.acts[k].dca > 0 =>
                \/ liveWallet'[positionsFile[k].token_address] > liveWallet[positionsFile[k].token_address]
                \/ SoldInPass(positionsFile[k].token_address)

\* C19: no buy, the entry or DCA step 2 or 3, changes the slot or the position
\* (position created, dca_step advanced, capital or token amount increased)
\* unless the wallet's token balance was seen to increase: a swap that returned
\* a signature but brought no tokens counts as a failed buy.
C19_BuysConfirmed ==
    [][/\ mode = "pair" => PairBuysConfirmed
       /\ mode = "live" => LiveEntryConfirmed /\ LiveDcaConfirmed]_vars

\* the statement for buy_token alone, and for process_dca_step alone
C19_LiveEntryOnly == [][mode = "live" => LiveEntryConfirmed]_vars
C19_LiveDcaOnly == [][mode = "live" => LiveDcaConfirmed]_vars

-----------------------------------------------------------------------------
(* A sell that fails *)

\* the budget of slot i, in the cache and in the file, is what it was
BudgetKept(i) == BUDGETS_CACHE'[i] = BUDGETS_CACHE[i] /\ budgetsFile'[i] = budgetsFile[i]

\* the fields of a slot that describe the trade, without the trackers of the
\* trail (max_pnl_pct, peak_price, trail_active)
TradeOf(slot) ==
    <<slot.status, slot.token_address, slot.dca_step, slot.entry_price, slot.step2_price,
      slot.step3_price, slot.dca_avg_price, slot.total_sol_invested, slot.step1_sol,
      slot.step2_sol, slot.step3_sol, slot.token_amount>>

\* the fields of a position that describe the trade, without max_pnl_percent
\* and max_mc
TradeOfPosition(pos) ==
    <<pos.status, pos.token_address, pos.dca_step, pos.entry_price, pos.dca_avg_price,
      pos.token_amount, pos.sol_amount, pos.dca_total_sol, pos.exit_tx, pos.tx_hash>>

\* the pair trader: a sell that failed leaves the slot and its budget as they were
PairFailedSellKeepsSlot ==
    \A i \in Slots :
        ev'[i].sell = "failed" => slotsFile'[i] = slotsFile[i] /\ BudgetKept(i)

\* the live trader: a sell that failed leaves the position as it was
LiveFailedSellKeepsPosition ==
    \A k \in 1..Len(lev'.acts) :
        lev'.acts[k].sell = "failed" => positionsFile'[k] = positionsFile[k]

\* C20: when an exit rule fires and the sell fails (no balance, no quote, swap
\* rejected, tokens still held after the swap) the slot or the position stays
\* open with every field and its budget unchanged, to be looked at again by the
\* next tick.
C20_FailedSellChangesNothing ==
    [][/\ mode = "pair" => PairFailedSellKeepsSlot
       /\ mode = "live" => LiveFailedSellKeepsPosition]_vars

\* the same without the trackers of the trail: the trade itself is as it was
C20_PairTradeKept ==
    [][mode = "pair" =>
          \A i \in Slots :
              ev'[i].sell = "failed" =>
                  TradeOf(slotsFile'[i]) = TradeOf(slotsFile[i]) /\ BudgetKept(i)]_vars

\* the only position of the file on its token
OnlyOnToken(k) ==
    \A j \in 1..Len(positionsFile) :
        positionsFile[j].token_address = positionsFile[k].token_address => j = k

\* what holds: the slot is still open with its budget untouched, and so is a
\* position that is the only one on its token
C20_StaysOpen ==
    [][/\ mode = "pair" =>
            \A i \in Slots :
                ev'[i].sell = "failed" =>
                    /\ slotsFile[i].status = "open" /\ slotsFile'[i].status = "open"
                    /\ BudgetKept(i)
       /\ mode = "live" =>
            \A k \in 1..Len(lev'.acts) :
                (lev'.acts[k].sell = "failed" /\ OnlyOnToken(k)) =>
                    /\ positionsFile[k].status = "OPEN" /\ positionsFile'[k].status = "OPEN"
                    /\ TradeOfPosition(positionsFile'[k]) = TradeOfPosition(positionsFile[k])]_vars

-----------------------------------------------------------------------------
(* The second look at the balance after a sell that failed *)

\* how many times the session stats were updated for the entry with this serial
TimesSettled(log, tx_hash) == Cardinality({j \in 1..Len(log) : log[j] = tx_hash})

\* record k of the file is the entry it was before the pass
SameEntry(k) == positionsFile'[k].tx_hash = positionsFile[k].tx_hash

\* the second look found no tokens: record k is CLOSED with the unconfirmed tag
\* and the pass has settled its entry once
ClosedUnconfirmed(k) ==
    /\ SameEntry(k)
    /\ positionsFile'[k].status = "CLOSED"
    /\ positionsFile'[k].exit_tx = "SELL_UNCONFIRMED"
    /\ TimesSettled(settleLog', positionsFile[k].tx_hash)
          = TimesSettled(settleLog, positionsFile[k].tx_hash) + 1

\* the second look found tokens: record k is still the OPEN entry
LeftOpen(k) == SameEntry(k) /\ positionsFile'[k].status = "OPEN"

\* C21: after the sell of an exit is reported as failed, manage_positions looks
\* at the token balance again: at zero the position is marked CLOSED with the
\* unconfirmed exit tag, exactly once; above zero the position stays OPEN.
C21_RecheckAfterFailedSell ==
    [][(mode = "live" /\ lev'.op = "manage") =>
          \A k \in 1..Len(lev'.acts) :
              /\ lev'.acts[k].sell = "unconfirmed" => ClosedUnconfirmed(k)
              /\ lev'.acts[k].sell = "failed" => LeftOpen(k)]_vars

\* the same for the positions that are the only one on their token
C21_SinglePosition ==
    [][(mode = "live" /\ lev'.op = "manage") =>
          \A k \in 1..Len(lev'.acts) :
              OnlyOnToken(k) =>
                  /\ lev'.acts[k].sell = "unconfirmed" => ClosedUnconfirmed(k)
                  /\ lev'.acts[k].sell = "failed" => LeftOpen(k)]_vars

\* a sell landed late and the second look closed the position
C21_Witness ==
    /\ mode = "live" /\ lev.op = "manage"
    /\ \E k \in 1..Len(lev.acts) :
          /\ lev.acts[k].sell = "unconfirmed"
          /\ positionsFile[k].exit_tx = "SELL_UNCONFIRMED"
          /\ liveWallet[positionsFile[k].token_address] = 0

\* a sell was rejected and the second look left the position open
C21_WitnessOpen ==
    /\ mode = "live" /\ lev.op = "manage"
    /\ \E k \in 1..Len(lev.acts) :
          /\ lev.acts[k].sell = "failed"
          /\ positionsFile[k].status = "OPEN"
          /\ liveWallet[positionsFile[k].token_address] > 0

-----------------------------------------------------------------------------
(* What a restart finds in pair_slots.json *)

\* the iteration in progress has bought for slot i and has not sold it again
FilledInTick(i) ==
    /\ i < loop.at
    /\ loop.acts[i].buy_ok
    /\ loop.acts[i].sell # "ok"

\* the file shows the fill of slot i as the iteration holds it in memory
FillOnFile(i) ==
    /\ slotsFile'[i].status = "open"
    /\ slotsFile'[i].dca_step = loop.slots[i].dca_step
    /\ slotsFile'[i].total_sol_invested = loop.slots[i].total_sol_invested

\* the step ends the iteration in progress: by its save_slots, or by the process
\* stopping
IterationEnds == mode = "pair" /\ loop.at > 0 /\ loop'.at = 0

\* C22: when the scheduler process stops at any point after a buy has executed,
\* the slot state read from the file on restart shows the fill: status, dca_step
\* and capital invested were persisted before anything later could fail.
C22_FillSurvivesStop ==
    [][IterationEnds => \A i \in Slots : FilledInTick(i) => FillOnFile(i)]_vars

\* the fill is on file when the iteration reaches its save_slots
C22_FillSavedAtEnd ==
    [][(IterationEnds /\ loop'.ended = "saved") =>
          \A i \in Slots : FilledInTick(i) => FillOnFile(i)]_vars

\* the process stopped after a step-1 buy and the file shows the slot watching
C22_LostFill ==
    /\ mode = "pair" /\ loop.ended = "stopped"
    /\ \E i \in Slots :
          /\ slotsFile[i].status = "watching"
          /\ walletTok[slotsFile[i].token_address] > 0

-----------------------------------------------------------------------------
(* Commands that run while an iteration is suspended *)

\* the step is the save_slots that ends an iteration
SavesSlots == IterationEnds /\ loop'.ended = "saved"

\* a command has changed slot i of the file since the iteration loaded it
ChangedByCommand(i) == slotsFile[i] # loop.loaded[i]

\* C23: the slot state a tick starts from reflects every mutation completed
\* before it, those of the operator's commands (cmd_trade, cmd_cancel,
\* cmd_close) that complete while the previous tick is suspended at network I/O
\* included: the save_slots at the end of a tick never overwrites the change a
\* command has persisted with the older copy of the tick.
C23_SaveKeepsCommands ==
    [][SavesSlots => \A i \in Slots : ChangedByCommand(i) => slotsFile'[i] = slotsFile[i]]_vars

\* a command that runs between two iterations is seen by the next one
C23_BetweenIterations ==
    [][(mode = "pair" /\ loop.at = 0 /\ loop'.at > 0) => loop'.slots = slotsFile]_vars

-----------------------------------------------------------------------------
(* Lookups that fail *)

\* manage_positions got no metrics, no quote or no balance for record k
NoDataFor(k) == ~lev'.acts[k].data \/ lev'.acts[k].no_balance

\* record k is as it was
RecordKept(k) == positionsFile'[k] = positionsFile[k]

\* C24: a price or token-balance lookup that fails or times out is treated as
\* no data for the tick: it never closes a position, never marks it phantom,
\* and changes no field of a position (stated for the passes of the live
\* trader over its OPEN positions; a sync_positions pass that closes a position
\* the wallet holds tokens of has had its balance lookup fail).
C24_NoDataNoChange ==
    [][mode = "live" =>
          \A k \in 1..Len(positionsFile) :
              positionsFile[k].status = "OPEN" =>
                  /\ (lev'.op = "manage" /\ NoDataFor(k)) => RecordKept(k)
                  /\ (lev'.op = "sync" /\ liveWallet[positionsFile[k].token_address] > 0)
                        => RecordKept(k)]_vars

\* the same for the lookups of the metrics and of the quote alone, and the
\* positions that are the only one on their token
C24_MetricsLookup ==
    [][(mode = "live" /\ lev'.op = "manage") =>
          \A k \in 1..Len(positionsFile) :
              (positionsFile[k].status = "OPEN" /\ ~lev'.acts[k].data /\ OnlyOnToken(k))
                  => RecordKept(k)]_vars

\* a balance lookup failed and the position was closed as a phantom while the
\* wallet holds its tokens
C24_ClosedOnFailedLookup ==
    /\ mode = "live" /\ lev.op = "manage"
    /\ \E k \in 1..Len(lev.acts) :
          /\ lev.acts[k].no_balance /\ lev.acts[k].phantom
          /\ positionsFile[k].exit_tx = "BALANCE_ZERO"
          /\ liveWallet[positionsFile[k].token_address] > 0

-----------------------------------------------------------------------------
(* An open slot without tokens *)

\* slot i is open and the wallet holds none of its token
PhantomSlot(i) ==
    /\ slotsFile[i].status = "open"
    /\ walletTok[slotsFile[i].token_address] = 0

\* C25: a slot of the pair trader that is open while the wallet holds zero
\* units of its token is eventually moved out of open by the scheduler loop,
\* when the loop keeps ticking and market data is available; it is never left
\* open forever.
C25_PhantomSlotLeavesOpen ==
    \A i \in Slots : PhantomSlot(i) ~> (slotsFile[i].status # "open")

\* an open slot without tokens stays open through every step that buys no
\* tokens for it: its sells fail
C25_PhantomSlotNotSold ==
    [][mode = "pair" =>
          \A i \in Slots :
              (PhantomSlot(i) /\ ev'[i].buy = 0)
                  => slotsFile'[i].status = "open" /\ ev'[i].sell # "ok"]_vars

\* a trailing exit was tried on an open slot without tokens, and failed
C25_PhantomExitFailed ==
    /\ mode = "pair"
    /\ \E i \in Slots : PhantomSlot(i) /\ ev[i].sell = "failed" /\ ev[i].price > 0

-----------------------------------------------------------------------------
(* A step-1 buy that fails or is skipped *)

\* the tick looked at watching slot i with a price at which the dip is reached
DipTick(i) ==
    /\ slotsFile[i].status = "watching"
    /\ ev'[i].price > 0
    /\ DipReached(slotsFile[i], ev'[i].price)

\* the step-1 buy of slot i was tried in this tick and gave no signature
StepOneFailed(i) == DipTick(i) /\ ev'[i].buy = 1 /\ ~ev'[i].buy_ok

\* the step-1 tranche of slot i is below the minimum viable amount
TrancheTooSmall(i) == StepSol(BUDGETS_CACHE[i].budget_sol, 1) < MIN_TRADE_SOL

\* slot i is as it was, but for the reference price that followed the price up
StillWatching(i) ==
    /\ slotsFile'[i] = Ratchet(slotsFile[i], ev'[i].price)
    /\ slotsFile'[i].status = "watching"
    /\ slotsFile'[i].dca_step = 0
    /\ slotsFile'[i].total_sol_invested = 0
    /\ slotsFile'[i].step1_sol = 0
    /\ slotsFile'[i].entry_dip_pct = slotsFile[i].entry_dip_pct
    /\ BUDGETS_CACHE'[i] = BUDGETS_CACHE[i]
    /\ walletTok'[slotsFile[i].token_address] = walletTok[slotsFile[i].token_address]

\* C26: a step-1 buy that fails, or that is skipped because the tranche is below
\* the minimum viable amount, leaves the slot watching with dca_step 0, nothing
\* invested and its entry dip as it was; every tick that finds the slot watching
\* with the dip reached tries the buy again, and a tranche below the minimum is
\* never bought
C26_FailedStepOneRetried ==
    [][\A i \in Slots :
          /\ StepOneFailed(i) => StillWatching(i)
          /\ DipTick(i) => ev'[i].buy = 1
          /\ (DipTick(i) /\ TrancheTooSmall(i)) => StepOneFailed(i)]_vars

\* a failed step-1 buy in the tick before, and the slot still watching
C26_Witness ==
    \E i \in Slots : /\ slotsFile[i].status = "watching"
                     /\ ev[i].buy = 1 /\ ~ev[i].buy_ok
                     /\ slotsFile[i].dca_step = 0

\* the buy was skipped because the tranche is below the minimum
C26_WitnessSkipped ==
    \E i \in Slots : /\ slotsFile[i].status = "watching"
                     /\ ev[i].buy = 1 /\ ~ev[i].buy_ok
                     /\ StepSol(BUDGETS_CACHE[i].budget_sol, 1) < MIN_TRADE_SOL

\* refuted by the model: no buy that failed in one tick goes through in the next
C26_NeverRetried ==
    [][\A i \in Slots : ~(/\ ev[i].buy = 1 /\ ~ev[i].buy_ok
                          /\ slotsFile[i].status = "watching"
                          /\ DipTick(i) /\ ev'[i].buy_ok)]_vars

-----------------------------------------------------------------------------
(* The capital a slot records *)

\* the capital recorded for step k of a slot
StepCapital(slot, k) ==
    IF k = 1 THEN slot.step1_sol ELSE IF k = 2 THEN slot.step2_sol ELSE slot.step3_sol

\* the accounts of one slot add up
SlotAccounts(slot) ==
    /\ slot.total_sol_invested = slot.step1_sol + slot.step2_sol + slot.step3_sol
    /\ slot.status = "open" => slot.dca_step >= 1
    /\ \A k \in 1..3 : StepCapital(slot, k) # 0 => slot.dca_step >= k

\* C27: in every slot, on file and in the iteration in progress,
\* total_sol_invested is step1_sol + step2_sol + step3_sol, an open slot has
\* dca_step >= 1, and a step's capital is non-zero only if dca_step has reached
\* that step
C27_SlotAccounts ==
    /\ \A i \in Slots : SlotAccounts(slotsFile[i])
    /\ loop.at > 0 => \A i \in Slots : SlotAccounts(loop.slots[i])

\* a slot with all three steps filled
C27_Witness ==
    \E i \in Slots : /\ slotsFile[i].status = "open"
                     /\ slotsFile[i].dca_step = 3
                     /\ \A k \in 1..3 : StepCapital(slotsFile[i], k) > 0

\* a slot watching again after a trade that went to step 2: its capital is cleared
C27_WitnessReset ==
    \E i \in Slots : /\ slotsFile[i].status = "watching"
                     /\ Len(pairHistory[slotsFile[i].token_address]) > 0
                     /\ slotsFile[i].total_sol_invested = 0

-----------------------------------------------------------------------------
(* The size of the tranches *)

\* the shares of the three steps, percent
TrancheShare == <<15, 25, 60>>

\* the share of step k of an amount
TrancheOf(amount, k) == (amount * TrancheShare[k]) \div 100

\* the tick filled step k of slot i, and the slot is still open after it
SlotStepFilled(i, k) ==
    /\ mode = "pair"
    /\ ev'[i].buy = k /\ ev'[i].buy_ok
    /\ slotsFile'[i].status = "open"

\* the step's capital is its share of the slot's budget at the tick
SlotTranche(i, k) ==
    StepCapital(slotsFile'[i], k) = TrancheOf(BUDGETS_CACHE[i].budget_sol, k)

\* the pass over the positions took DCA step n on position k
PositionStepFilled(k, n) ==
    /\ mode = "live"
    /\ lev'.op = "manage"
    /\ k <= Len(lev'.acts) /\ lev'.acts[k].dca = n
    /\ OnlyOnToken(k)

\* the SOL the step added to position k
PositionStepCapital(k) == positionsFile'[k].sol_amount - positionsFile[k].sol_amount

\* the signal opened a position
PositionOpened ==
    /\ mode = "live"
    /\ lev'.op = "signal"
    /\ Len(positionsFile') = Len(positionsFile) + 1

\* the statement as it stands, with MAX_POSITION_SOL as the budget of a live position
C28_FixedTranches ==
    [][/\ \A i \in Slots : \A k \in 1..3 : SlotStepFilled(i, k) => SlotTranche(i, k)
       /\ \A k \in 1..Len(positionsFile) : \A n \in 2..3 :
             PositionStepFilled(k, n) => PositionStepCapital(k) = TrancheOf(MAX_POSITION_SOL, n)]_vars

\* C28: in the pair trader the capital of step 1, 2 and 3 is 15%, 25% and 60% of
\* the slot's budget at the time of the step, whatever the token's market cap;
\* in the live trader step 1 is 15% of the smaller of MAX_POSITION_SOL and the
\* free budget per remaining position, and steps 2 and 3 are 25% and 60% of
\* MAX_POSITION_SOL, capped at half of the usable balance of the wallet
C28_TranchesOfBudget ==
    [][/\ \A i \in Slots : \A k \in 1..3 : SlotStepFilled(i, k) => SlotTranche(i, k)
       /\ \A k \in 1..Len(positionsFile) : \A n \in 2..3 :
             PositionStepFilled(k, n) =>
                PositionStepCapital(k) =
                    Min(TrancheOf(MAX_POSITION_SOL, n),
                        Max(0, get_sol_balance - MIN_FEE_RESERVE) \div 2)
       /\ PositionOpened =>
             positionsFile'[Len(positionsFile')].sol_amount
                = EntrySol(positionsFile, get_sol_balance)]_vars

\* a live position whose step 2 was capped by the wallet
C28_Witness ==
    /\ mode = "live" /\ lev.op = "manage"
    /\ \E k \in 1..Len(positionsFile) :
          /\ lev.acts[k].dca = 2
          /\ positionsFile[k].dca_step = 2
          /\ positionsFile[k].sol_amount - EntrySol(<<>>, get_sol_balance)
                = Max(0, get_sol_balance - MIN_FEE_RESERVE) \div 2
          /\ positionsFile[k].sol_amount - EntrySol(<<>>, get_sol_balance)
                < TrancheOf(MAX_POSITION_SOL, 2)

\* slots of a small-cap and of a large-cap token, both with their step-1 capital
C28_WitnessTiers ==
    /\ mode = "pair"
    /\ \E i, j \in Slots :
          /\ slotsFile[i].token_address = "A" /\ slotsFile[i].step1_sol > 0
          /\ slotsFile[j].token_address = "B" /\ slotsFile[j].step1_sol > 0
          /\ McOf("A") < 500 /\ McOf("B") >= 10000

-----------------------------------------------------------------------------
(* The running average price *)

\* (old_avg * old_capital + step_price * step_capital) / new_capital
WeightedAvg(old_avg, old_capital, step_price, step_capital, new_capital) ==
    Rat(old_avg.n * old_capital + step_price * step_capital * old_avg.d,
        new_capital * old_avg.d)

\* the average of slot i after the fill of step k in this tick
SlotAvgAfterStep(i, k) ==
    slotsFile'[i].dca_avg_price =
        WeightedAvg(slotsFile[i].dca_avg_price, slotsFile[i].total_sol_invested,
                    ev'[i].price, StepCapital(slotsFile'[i], k),
                    slotsFile'[i].total_sol_invested)

\* the average of position k after the DCA step of this pass
PositionAvgAfterStep(k) ==
    positionsFile'[k].dca_avg_price =
        WeightedAvg(positionsFile[k].dca_avg_price, positionsFile[k].sol_amount,
                    lev'.acts[k].price, PositionStepCapital(k),
                    positionsFile'[k].sol_amount)

\* the tick measured the PnL of slot i, which had been averaged down before
SlotTickAfterDca(i) ==
    /\ mode = "pair"
    /\ slotsFile[i].status = "open" /\ slotsFile[i].dca_step >= 2
    /\ ev'[i].price > 0
    /\ slotsFile'[i].status = "open"

\* the pass measured the PnL of position k, which had been averaged down before
\* and whose tokens are all in the wallet
PositionPassAfterDca(k) ==
    /\ mode = "live"
    /\ lev'.op = "manage"
    /\ k <= Len(lev'.acts) /\ lev'.acts[k].data
    /\ positionsFile[k].dca_step >= 2
    /\ OnlyOnToken(k)
    /\ liveWallet[positionsFile[k].token_address] = positionsFile[k].token_amount
    /\ k <= Len(positionsFile') /\ positionsFile'[k].status = "OPEN"

\* ((price - avg) / avg) * 100, in basis points
PnlAgainstAvg(price, avg) == (price * avg.d * 10000) \div avg.n - 10000

\* the highest PnL on record follows the PnL the tick measured
SlotPnlOnAvg(i) ==
    slotsFile'[i].max_pnl_pct =
        Max(slotsFile[i].max_pnl_pct, PnlPct(ev'[i].price, slotsFile[i].dca_avg_price))

PositionPnlOnAvg(k) ==
    positionsFile'[k].max_pnl_percent =
        Max(positionsFile[k].max_pnl_percent,
            PnlAgainstAvg(lev'.acts[k].price, positionsFile[k].dca_avg_price))

\* the live trader's PnL: the value of the balance against the SOL invested
PositionPnlOnValue(k) ==
    positionsFile'[k].max_pnl_percent =
        Max(positionsFile[k].max_pnl_percent,
            LivePnl(liveWallet[positionsFile[k].token_address], lev'.acts[k].price,
                    positionsFile[k].sol_amount))

\* the averages after a step-2 or step-3 fill, in both traders
AveragesAfterSteps ==
    /\ \A i \in Slots : \A k \in 2..3 : SlotStepFilled(i, k) => SlotAvgAfterStep(i, k)
    /\ \A k \in 1..Len(positionsFile) : \A n \in 2..3 :
          PositionStepFilled(k, n) => PositionAvgAfterStep(k)

\* the statement as it stands: both traders measure the PnL of later ticks
\* against the running average
C29_PnlAgainstAverage ==
    [][/\ AveragesAfterSteps
       /\ \A i \in Slots : SlotTickAfterDca(i) => SlotPnlOnAvg(i)
       /\ \A k \in 1..Len(positionsFile) : PositionPassAfterDca(k) => PositionPnlOnAvg(k)]_vars

\* C29: after each successful step-2 and step-3 fill the running average is
\* (old_avg * old_capital + step_price * step_capital) / new_capital; the pair
\* trader measures the PnL of later ticks against this average, the live trader
\* measures it as the value of the token balance against the SOL invested
C29_RunningAverage ==
    [][/\ AveragesAfterSteps
       /\ \A i \in Slots : SlotTickAfterDca(i) => SlotPnlOnAvg(i)
       /\ \A k \in 1..Len(positionsFile) : PositionPassAfterDca(k) => PositionPnlOnValue(k)]_vars

\* a slot averaged down twice, with an average between its lowest and highest fill
C29_Witness ==
    \E i \in Slots :
        /\ slotsFile[i].status = "open" /\ slotsFile[i].dca_step = 3
        /\ ev[i].buy = 3 /\ ev[i].buy_ok
        /\ slotsFile[i].dca_avg_price.n > ev[i].price * slotsFile[i].dca_avg_price.d
        /\ slotsFile[i].dca_avg_price.n < slotsFile[i].entry_price * slotsFile[i].dca_avg_price.d

\* a live position averaged down whose highest PnL was measured after the step
C29_WitnessLive ==
    /\ mode = "live" /\ lev.op = "manage"
    /\ \E k \in 1..Len(positionsFile) :
          /\ positionsFile[k].status = "OPEN" /\ positionsFile[k].dca_step = 2
          /\ lev.acts[k].data /\ lev.acts[k].dca = 0
          /\ positionsFile[k].max_pnl_percent > 0
          /\ positionsFile[k].max_pnl_percent
                > PnlAgainstAvg(lev.acts[k].price, positionsFile[k].dca_avg_price)

-----------------------------------------------------------------------------
(* What sync_positions does with the CLOSED positions *)

\* the step is a run of sync_positions
SyncPass == mode = "live" /\ lev'.op = "sync"

\* position k is CLOSED with its exit less than 24 hours ago
ClosedInWindow(k) ==
    /\ positionsFile[k].status = "CLOSED"
    /\ positionsFile[k].exit_time >= 0
    /\ now - positionsFile[k].exit_time < 24 * 60

\* the wallet holds tokens of position k, and the sync has seen them
BalanceSeen(k) ==
    /\ liveWallet[positionsFile[k].token_address] > 0
    /\ ~lev'.acts[k].no_balance

\* position k is OPEN again: the fields of its exit are cleared and its amount
\* is the balance; nothing else has changed
OpenAgain(k) ==
    /\ positionsFile'[k].status = "OPEN"
    /\ positionsFile'[k].exit_price = 0
    /\ positionsFile'[k].exit_time = -1
    /\ positionsFile'[k].exit_tx = ""
    /\ positionsFile'[k].pnl_percent = 0
    /\ positionsFile'[k].token_amount = liveWallet[positionsFile[k].token_address]
    /\ positionsFile'[k] = [positionsFile[k] EXCEPT
                               !.status = "OPEN", !.exit_price = 0, !.exit_time = -1,
                               !.exit_tx = "", !.pnl_percent = 0,
                               !.token_amount = liveWallet[positionsFile[k].token_address]]

C30_WitnessOld ==
    /\ mode = "live" /\ lev.op = "sync"
    /\ \E k \in 1..Len(positionsFile) :
          /\ positionsFile[k].status = "CLOSED"
          /\ positionsFile[k].exit_time >= 0 /\ now - positionsFile[k].exit_time >= 24 * 60
          /\ liveWallet[positionsFile[k].token_address] > 0
          /\ ~lev.acts[k].no_balance

\* a sync has left a position CLOSED whose tokens are gone
C30_WitnessEmpty ==
    /\ mode = "live" /\ lev.op = "sync"
    /\ \E k \in 1..Len(positionsFile) :
          /\ positionsFile[k].status = "CLOSED" /\ ~lev.acts[k].phantom
          /\ positionsFile[k].exit_time >= 0 /\ now - positionsFile[k].exit_time < 24 * 60
          /\ liveWallet[positionsFile[k].token_address] = 0

-----------------------------------------------------------------------------
(* How a tracked signal leaves the tracker *)

\* the call submitted a buy for the signalled token and no position came of it
BuyNotConfirmed ==
    /\ SignalCall
    /\ lev'.sig.submitted
    /\ positionsFile' = positionsFile

\* the call submitted a buy and the position is on file
BuyConverted ==
    /\ SignalCall
    /\ lev'.sig.submitted
    /\ Len(positionsFile') = Len(positionsFile) + 1
    /\ positionsFile'[Len(positionsFile')].token_address = Signalled

\* the entry of the signalled token is kept: first sighting and peak as they were,
\* the count with this sighting added
CandidateKept ==
    /\ tracker'[Signalled].on
    /\ tracker'[Signalled].first_seen = tracker[Signalled].first_seen
    /\ tracker'[Signalled].peak_price = Max(tracker[Signalled].peak_price, lev'.sig.price)
    /\ tracker'[Signalled].signal_count = tracker[Signalled].signal_count + 1

\* token t is dropped from the tracker in this step
LeavesTracker(t) == tracker[t].on /\ ~tracker'[t].on

\* C31: a tracked signal leaves the tracker only by conversion into a position
\* or by expiry; when the entry is authorized and the buy then fails or is never
\* confirmed, the candidate is still tracked with its first-seen time, its peak
\* price and its count intact
C31_CandidateSurvivesFailedBuy ==
    [][/\ \A t \in Tokens :
             LeavesTracker(t) => \/ t \in ExpiredEntries
                                 \/ BuyConverted /\ t = Signalled
       /\ BuyNotConfirmed => CandidateKept]_vars

\* what holds: an entry leaves the tracker when it expires or when the buy of its
\* token is submitted, whatever comes of the buy
C31_LeavesOnSubmission ==
    [][\A t \in Tokens :
          LeavesTracker(t) => \/ t \in ExpiredEntries
                              \/ SignalCall /\ lev'.sig.submitted /\ t = Signalled]_vars

\* a buy was submitted, no position came of it, and the token is tracked no more
C31_CandidateLost ==
    /\ mode = "live" /\ lev.op = "signal" /\ lev.sig.submitted
    /\ ~tracker[lev.sig.token].on
    /\ \A i \in 1..Len(positionsFile) : positionsFile[i].token_address # lev.sig.token

-----------------------------------------------------------------------------
(* A restart while buy_token waits for its tokens *)

\* the process stops inside buy_token after the swap is sent and before the
\* position is saved; the swap lands; what the process held in memory (the
\* tracker) is gone when it starts again
stopped_in_buy_token(token_address, price, buy_ratio, liquidity) ==
    LET sol_amount == EntrySol(positionsFile, get_sol_balance)
    IN /\ mode = "live"
       /\ "restart" \in market.ops
       /\ token_address \in market.signals
       /\ KeptSignals[token_address].signal_count < MaxSignals
       /\ price > 0
       /\ ~EntryRefused(token_address, price, buy_ratio, liquidity)
       /\ LiveQuoteOut(sol_amount, price) > 0
       /\ loop.stops < MaxStops
       /\ loop' = [loop EXCEPT !.stops = @ + 1]
       /\ tracker' = [t \in Tokens |-> NoTrack]
       /\ liveWallet' = [liveWallet EXCEPT ![token_address] = @ + LiveQuoteOut(sol_amount, price)]
       /\ lev' = [LiveEv("restart", NoLiveActs(Len(positionsFile))) EXCEPT
                     !.sig = Sig(token_address, price, buy_ratio, liquidity, {}, TRUE)]
       /\ UNCHANGED <<positionsFile, session, settleLog, now, mode, market, exitVars>>
       /\ UNCHANGED <<slotsFile, budgetsFile, BUDGETS_CACHE, pairHistory, walletTok, closeLog, ev>>

StopInBuy ==
    \E t \in Tokens : \E p \in SignalPrices(t), r \in market.ratios, l \in SignalLiquidities :
        stopped_in_buy_token(t, p, r, l)

\* the world of the restart: one token is signalled at 1.00 and 0.88 and again
\* after ten minutes; the operator runs the sync
RestartMarkets ==
    { World({10000, 8800}, {}, {}, {}, {"sync", "restart"}, {0, 10},
            <<>>, {"A"}, {CalmFlow}, {20}) }

InitRestart ==
    /\ mode = "live" /\ market \in RestartMarkets
    /\ PairInit
    /\ LiveInit
    /\ exitIn = NoExitIn
    /\ exitOut = ""

NextRestart ==
    \/ Signal
    \/ StopInBuy
    \/ manage_positions
    \/ sync_positions
    \/ Sleep

SpecRestart == InitRestart /\ [][NextRestart]_vars

\* the wallet holds tokens of t and no OPEN position stands for them
Unrecorded(t) ==
    /\ liveWallet[t] > 0
    /\ \A i \in 1..Len(positionsFile) :
          positionsFile[i].token_address = t => positionsFile[i].status # "OPEN"

\* C32: when the process restarts while a submitted buy waits for its
\* confirmation and the swap did land, a later sync_positions finds the holding
\* and records an OPEN position for it
C32_SyncFindsHolding ==
    [][SyncPass =>
          \A t \in Tokens :
              Unrecorded(t) =>
                  \E i \in 1..Len(positionsFile') :
                      /\ positionsFile'[i].token_address = t
                      /\ positionsFile'[i].status = "OPEN"]_vars

\* what holds: sync_positions adds no position and changes no token address
C32_SyncAddsNoPosition ==
    [][SyncPass =>
          /\ Len(positionsFile') = Len(positionsFile)
          /\ \A i \in 1..Len(positionsFile) :
                positionsFile'[i].token_address = positionsFile[i].token_address]_vars

\* after a sync the wallet holds tokens that no position, open or closed, stands for
C32_HoldingUnrecorded ==
    /\ mode = "live" /\ lev.op = "sync"
    /\ \E t \in Tokens :
          /\ liveWallet[t] > 0
          /\ \A i \in 1..Len(positionsFile) : positionsFile[i].token_address # t

-----------------------------------------------------------------------------
(* The softer trailing rules and the primary trail *)

\* the highest PnL from which the primary trail is armed, basis points
TrailArmPnl == 1500

\* highest PnLs below the trail's threshold
PeaksBelowTrailArm == {m * 100 : m \in 0..14} \cup {TrailArmPnl - 1}

\* for the position, the metrics and the time of the call there is a highest
\* PnL below the trail's threshold and a current PnL with which
\* check_exit_conditions returns this rule
ReturnedBelowTrailArm(rule) ==
    \E mx \in PeaksBelowTrailArm, pnl \in ExitPnls :
        check_exit_conditions([exitIn.pos EXCEPT !.max_pnl_percent = mx], pnl,
                              exitIn.metrics, exitIn.now) = rule

\* C33: profit-lock and emergency-save are each reachable while the trail has
\* not armed: for some highest PnL below the trail's threshold and some current
\* PnL check_exit_conditions returns PROFIT_LOCK, and for some it returns
\* EMERGENCY_SAVE
C33_SofterRulesReachable ==
    /\ ReturnedBelowTrailArm("PROFIT_LOCK")
    /\ ReturnedBelowTrailArm("EMERGENCY_SAVE")

\* what holds: the function never returns EMERGENCY_SAVE, whatever the highest PnL
C33_EmergencySaveNeverReturned == exitOut # "EMERGENCY_SAVE"

\* what holds: with the highest PnL at or above the rule's threshold (18%) and the
\* PnL at or below 6% the answer is TRAIL
C33_TrailComesFirst ==
    (/\ exitOut # ""
     /\ exitIn.pos.max_pnl_percent >= 1800
     /\ exitIn.pnl <= 600) => exitOut = "TRAIL"

\* profit-lock returned before the trail is armed
C33_ProfitLockReached ==
    /\ exitOut = "PROFIT_LOCK"
    /\ exitIn.pos.max_pnl_percent < TrailArmPnl

\* the inputs of emergency-save were evaluated
C33_EmergencyInputsReached ==
    /\ exitOut # ""
    /\ exitIn.pos.max_pnl_percent >= 1800
    /\ exitIn.pnl <= 600

-----------------------------------------------------------------------------
(* The longest time a position is held *)

\* 24 hours, in minutes
MaxHoldMins == 24 * 60

\* the position of the call has been held for more than 24 hours
HeldOverMax == exitIn.now - exitIn.pos.entry_time > MaxHoldMins

\* the position of the call is a RANGE trade with all three steps bought
RangeFullyInvested == exitIn.pos.trade_type = "RANGE" /\ exitIn.pos.dca_step >= 3

\* the statement as it stands: past 24 hours every step and every trade type is
\* given an exit
C34_MaxHoldForcesExit ==
    (exitOut # "" /\ HeldOverMax) => exitOut # "NONE"

\* C34: for a position held longer than 24 hours check_exit_conditions returns
\* an exit at DCA steps 1 and 2 for every trade type and at step 3 for every
\* type but RANGE; a RANGE position at step 3 is given an exit once it is held
\* longer than its 48 hours
C34_MaxHoldByType ==
    /\ (exitOut # "" /\ HeldOverMax /\ ~RangeFullyInvested) => exitOut # "NONE"
    /\ (/\ exitOut # "" /\ RangeFullyInvested
        /\ exitIn.now - exitIn.pos.entry_time > 2 * MaxHoldMins) => exitOut # "NONE"

\* a position at step 1 sent out by the clock alone after a day
C34_Witness ==
    /\ exitOut = "DCA_TIMEOUT"
    /\ exitIn.pos.dca_step = 1
    /\ HeldOverMax

\* a RANGE position at step 3 kept after a day
C34_RangeKept ==
    /\ exitOut = "NONE"
    /\ RangeFullyInvested
    /\ HeldOverMax

-----------------------------------------------------------------------------
(* The tick in which the trail arms *)

\* the trail of slot i, open when the tick began, is armed by this tick
ArmsNow(i) == TickOnOpen(i) /\ ~slotsFile[i].trail_active /\ TickPnl(i) >= get_trail_params(McOf(slotsFile[i].token_address))[1]

\* C35: the trail exit of an open slot measures the retreat from the highest
\* price seen since the trail armed, so the tick that arms the trail (its price
\* is that highest price) never closes the slot, also after DCA fills lowered
\* the average price below an earlier high.
C35_NoExitOnArmingTick ==
    [][mode = "pair" => \A i \in Slots : ArmsNow(i) => ~TrailFires(i)]_vars

\* without a DCA fill the tick that arms the trail never closes the slot
C35_NoExitOnArmingTickAtStepOne ==
    [][mode = "pair" =>
          \A i \in Slots : (ArmsNow(i) /\ slotsFile[i].dca_step = 1) => ~TrailFires(i)]_vars

-----------------------------------------------------------------------------
(* The entry dip learned from the trade history *)

\* the trades a history file can hold for a token when the process starts:
\* closed at a loss, at break-even or at a profit, entered at the dip of the
\* large-cap tier (3.0), at the all-losses value of the 2M-10M tier (6.5), at the
\* dip of the small-cap tier (10.0) or at its all-losses value (13.0); on these
\* multiples of 0.5 the sums, averages and midpoints of the code's binary floats
\* are exact, so round(x, 1) meets a tie only at an exact x.25 or x.75
MaxHistory == 3
DipPnls == {-500, 0, 800}
DipsUsed == {30, 65, 100, 130}
DipTrades == [pnl_pct : DipPnls, dca_steps : {1}, entry_dip_used : DipsUsed]
DipHistories == UNION {[1..n -> DipTrades] : n \in 0..MaxHistory}

\* a small-cap token (A, base 10.0) and a large-cap token (B, base 3.0)
DipMarkets == { PairWorld({10000}, {10000}, {}, {}) }

\* the trader starts with empty slots and the history file of an earlier run:
\* one token has trades on record
InitDip ==
    /\ mode = "pair" /\ market \in DipMarkets
    /\ slotsFile = ListOf([i \in Slots |-> EmptySlot], LastSlot)
    /\ \E per \in StartPerSlot :
          /\ budgetsFile = ListOf([i \in Slots |-> SlotBudget(per)], LastSlot)
          /\ BUDGETS_CACHE = ListOf([i \in Slots |-> SlotBudget(per)], LastSlot)
    /\ \E tok \in {"A", "B"}, h \in DipHistories :
          pairHistory = [t \in Tokens |-> IF t = tok THEN ListOf(h, Len(h)) ELSE <<>>]
    /\ walletTok = [t \in Tokens |-> 0]
    /\ closeLog = ListOf([i \in Slots |-> <<>>], LastSlot)
    /\ ev = NoActs
    /\ loop = NoLoop
    /\ LiveInit
    /\ exitIn = NoExitIn
    /\ exitOut = ""

\* /trade puts a token on watch with the dip get_adjusted_entry_dip returns
NextDip == \E t \in Tokens : cmd_trade(t)

SpecDip == InitDip /\ [][NextDip]_vars

\* slot i is on watch with the dip computed from the history on file
Watched(i) == mode = "pair" /\ slotsFile[i].status = "watching" /\ slotsFile[i].dca_step = 0

TradesOf(i) == pairHistory[slotsFile[i].token_address]
BaseOf(i) == get_entry_dip(slotsFile[i].entry_mc)
ProfitableOf(i) == SelectSeq(TradesOf(i), LAMBDA t : t.pnl_pct > 0)

\* at least two trades on record, none of them profitable
OnlyLosses(i) == Len(TradesOf(i)) >= 2 /\ Len(ProfitableOf(i)) = 0

\* a market cap of each tier of get_entry_dip (thousands of USD)
TierCaps == {400, 1000, 5000, 20000}

\* the dip get_adjusted_entry_dip returns for token t at market cap mc from the
\* history on file: deeper than the base after losses only, and within the cap
DipInRange(t, mc) ==
    LET d == get_adjusted_entry_dip(pairHistory, t, mc)
        base == get_entry_dip(mc)
        trades == pairHistory[t]
    IN /\ (Len(trades) >= 2 /\ Len(SelectSeq(trades, LAMBDA x : x.pnl_pct > 0)) = 0) => d > base
       /\ 2 * d >= base
       /\ 2 * d <= 3 * base

\* C36: with at least two trades on record for the token and none of them
\* profitable, get_adjusted_entry_dip returns a dip strictly deeper than the base
\* of the market-cap tier; for every history the result lies within 0.5x to 1.5x
\* of the base (for the slot put on watch and at every tier).
C36_DeeperAfterLosses ==
    /\ \A i \in Slots :
          Watched(i) =>
              /\ OnlyLosses(i) => slotsFile[i].entry_dip_pct > BaseOf(i)
              /\ 2 * slotsFile[i].entry_dip_pct >= BaseOf(i)
              /\ 2 * slotsFile[i].entry_dip_pct <= 3 * BaseOf(i)
    /\ mode = "pair" => \A t \in Tokens, mc \in TierCaps : DipInRange(t, mc)

\* two losses on record: the small-cap token waits for 13.0% instead of 10.0%
C36_Witness ==
    \E i \in Slots :
        /\ Watched(i) /\ OnlyLosses(i)
        /\ slotsFile[i].token_address = "A"
        /\ slotsFile[i].entry_dip_pct = 130

\* profitable entries far deeper than the base: the result is held at 1.5x of the base
C36_CapReached ==
    \E i \in Slots :
        /\ Watched(i) /\ slotsFile[i].token_address = "B"
        /\ Len(ProfitableOf(i)) = Len(TradesOf(i)) /\ Len(TradesOf(i)) >= 2
        /\ \A k \in 1..Len(TradesOf(i)) : TradesOf(i)[k].entry_dip_used = 130
        /\ slotsFile[i].entry_dip_pct = 45

-----------------------------------------------------------------------------
(* The entry dip after profitable deep entries *)

\* the sum of the dips the trades on record were entered at
DipSum(i) == SumSeq([k \in 1..Len(TradesOf(i)) |-> TradesOf(i)[k].entry_dip_used])

\* every trade on record for the token of slot i was profitable and was entered
\* at a dip deeper than the base
ProfitsFromDeeperDips(i) ==
    /\ Len(TradesOf(i)) >= 1
    /\ \A k \in 1..Len(TradesOf(i)) :
          /\ TradesOf(i)[k].pnl_pct > 0
          /\ TradesOf(i)[k].entry_dip_used > BaseOf(i)

\* the statement as it stands: the dip returned is shallower than the (average)
\* dip of those entries and not deeper than the base
C37_ShallowerAfterProfits ==
    \A i \in Slots :
        (Watched(i) /\ ProfitsFromDeeperDips(i)) =>
            /\ slotsFile[i].entry_dip_pct * Len(TradesOf(i)) < DipSum(i)
            /\ slotsFile[i].entry_dip_pct <= BaseOf(i)

\* C37: for a token whose recorded trades are all profitable and were all entered
\* at dips deeper than the base, get_adjusted_entry_dip returns a dip not
\* shallower than the base and not deeper than the average dip of those entries
\* nor than 1.5x the base: the base for a single trade, and for two or more
\* trades the midpoint of the base and that average, which is deeper than the
\* base once the average exceeds the base by more than 0.1 points.
C37_NudgedTowardsProfitableDip ==
    \A i \in Slots :
        (Watched(i) /\ ProfitsFromDeeperDips(i)) =>
            LET d == slotsFile[i].entry_dip_pct
                n == Len(TradesOf(i))
            IN /\ d >= BaseOf(i)
               /\ d * n <= DipSum(i)
               /\ 2 * d <= 3 * BaseOf(i)
               /\ n = 1 => d = BaseOf(i)
               /\ (n >= 2 /\ DipSum(i) > n * (BaseOf(i) + 1)) => d > BaseOf(i)
               /\ (n >= 2 /\ 2 * DipSum(i) <= 4 * n * BaseOf(i)) =>
                     /\ 2 * n * (2 * d - 1) <= 2 * (n * BaseOf(i) + DipSum(i))
                     /\ 2 * n * (2 * d + 1) >= 2 * (n * BaseOf(i) + DipSum(i))

\* two profitable trades entered at 13.0% on the small-cap token: the next entry
\* waits for 11.5%, between the base (10.0%) and the dip of those entries
C37_Witness ==
    \E i \in Slots :
        /\ Watched(i) /\ ProfitsFromDeeperDips(i)
        /\ slotsFile[i].token_address = "A"
        /\ Len(TradesOf(i)) = 2
        /\ DipSum(i) = 260
        /\ slotsFile[i].entry_dip_pct = 115

-----------------------------------------------------------------------------
(* One OPEN position per token *)

\* the OPEN positions of token t in a position list
OpenOfToken(positions, t) == {i \in OpenIn(positions) : positions[i].token_address = t}

OneOpenPerToken(positions) == \A t \in Tokens : Cardinality(OpenOfToken(positions, t)) <= 1

\* C38: the positions file holds at most one OPEN position per token address
\* after any sequence of process_signal, manage_positions and sync_positions,
\* also when a token has an OPEN position and an earlier CLOSED record inside
\* the 24-hour window of the sync.
C38_OneOpenPerToken == mode = "live" => OneOpenPerToken(positionsFile)

\* every step but the sync keeps the file at one OPEN position per token
C38_KeptOutsideSync ==
    [][(mode = "live" /\ lev'.op # "sync" /\ OneOpenPerToken(positionsFile))
          => OneOpenPerToken(positionsFile')]_vars

\* a token with an OPEN position and a CLOSED record of less than 24 hours ago,
\* its tokens in the wallet: the state the sync starts from
C38_OpenNextToRecentClosed ==
    /\ mode = "live"
    /\ OneOpenPerToken(positionsFile)
    /\ \E i, k \in 1..Len(positionsFile) :
          /\ positionsFile[i].status = "OPEN"
          /\ positionsFile[k].token_address = positionsFile[i].token_address
          /\ ClosedInWindow(k)
          /\ liveWallet[positionsFile[i].token_address] > 0

-----------------------------------------------------------------------------
(* manage_positions next to the scanner's process_signal *)

\* run_live gathers run_scanner and run_live_manager on one event loop: a pass
\* of manage_positions is suspended at the network calls of its loop body, and
\* process_signal (with buy_token) can run there. The pass is taken position by
\* position, suspended before each one (await get_token_metrics):
\*   loop.at = the position it waits for (0 outside a pass), loop.loaded = the
\*   objects of its load_positions(), loop.slots = its local list positions,
\*   loop.acts = what it has done

\* the next position of the pass: the next one that was OPEN at its load
NextOpenAfter(objs, k) ==
    LET later == {i \in (k + 1)..Len(objs) : objs[i].status = "OPEN"}
    IN IF later = {} THEN 0 ELSE MinOf(later)

\* positions = load_positions(); open_positions = [...]; return if there is none
manage_positions_load ==
    /\ mode = "live"
    /\ loop.at = 0
    /\ OpenIn(positionsFile) # {}
    /\ loop' = [loop EXCEPT
                  !.at = MinOf(OpenIn(positionsFile)),
                  !.loaded = positionsFile,
                  !.slots = ListOf([i \in 1..Len(positionsFile) |-> Alias(i)], Len(positionsFile)),
                  !.acts = NoLiveActs(Len(positionsFile))]
    /\ lev' = LiveEv("load", NoLiveActs(Len(positionsFile)))
    /\ UNCHANGED <<positionsFile, liveWallet, session, settleLog, tracker, now, mode, market,
                   slotsFile, budgetsFile, BUDGETS_CACHE, pairHistory, walletTok, closeLog, ev,
                   exitVars>>

\* the loop body for the position the pass waits for, on the file, the wallet
\* and the session as they are now
manage_positions_body ==
    LET k == loop.at
        st == ManageState(positionsFile, loop.slots, loop.loaded, liveWallet, session,
                          settleLog, loop.acts)
    IN /\ mode = "live"
       /\ loop.at > 0
       /\ \E st2 \in ManageOne(st, k, now) :
             /\ st2.stats.buys <= MaxBuys
             /\ positionsFile' = st2.file
             /\ liveWallet' = st2.wallet
             /\ session' = st2.stats
             /\ settleLog' = st2.log
             /\ lev' = LiveEv("manage", st2.acts)
             /\ loop' = [loop EXCEPT !.at = NextOpenAfter(st2.objs, k), !.loaded = st2.objs,
                                     !.slots = st2.local, !.acts = st2.acts]
       /\ UNCHANGED <<tracker, now, mode, market,
                      slotsFile, budgetsFile, BUDGETS_CACHE, pairHistory, walletTok, closeLog, ev,
                      exitVars>>

\* the runs of the two tasks
\*   1: a position of B is held, A is signalled at 1.00 and 0.88; the balance
\*      lookup of a pass can fail
TaskMarkets ==
    { World({10000, 8800}, {10000}, {}, {"balance"}, {}, {0},
            <<"B">>, {"A"}, {CalmFlow}, {20}) }

InitTasks ==
    /\ mode = "live" /\ market \in TaskMarkets
    /\ PairInit
    /\ LiveInit
    /\ exitIn = NoExitIn
    /\ exitOut = ""

NextTasks ==
    \/ manage_positions_load
    \/ manage_positions_body
    \/ Signal

SpecTasks == InitTasks /\ [][NextTasks]_vars

\* a step of the loop body of a pass
BodyStep == mode = "live" /\ loop.at > 0 /\ lev'.op = "manage"

\* the positions appended to the file since the pass loaded it
AppendedSinceLoad == {i \in 1..Len(positionsFile) : i > Len(loop.loaded)}

\* record i is still on file after the step
StillOnFile(i) ==
    /\ i <= Len(positionsFile')
    /\ positionsFile'[i].token_address = positionsFile[i].token_address
    /\ positionsFile'[i].tx_hash = positionsFile[i].tx_hash

\* C39: a position that buy_token appended and saved while manage_positions was
\* suspended in its pass is still on file when the pass goes on: no save of a
\* list loaded earlier in the pass drops it.
C39_AppendedPositionKept ==
    [][BodyStep => \A i \in AppendedSinceLoad : StillOnFile(i)]_vars

\* a pass that no buy has come in between loses no position
C39_KeptWithoutInterleaving ==
    [][(BodyStep /\ AppendedSinceLoad = {}) =>
          \A i \in 1..Len(positionsFile) : StillOnFile(i)]_vars

\* a buy has come in during a pass: the file is longer than the list of the pass
C39_BoughtDuringPass ==
    /\ mode = "live"
    /\ loop.at > 0
    /\ Len(positionsFile) > Len(loop.loaded)
    /\ positionsFile[Len(positionsFile)].status = "OPEN"

-----------------------------------------------------------------------------
(* The capital of a slot against its budget *)

\* slot i has not put more capital into its trade than its budget holds
WithinBudget(i) ==
    slotsFile[i].status = "open" => slotsFile[i].total_sol_invested <= Budget(i).budget_sol

\* C40: every slot's budget_sol is >= 0 and the total_sol_invested of an open
\* slot is <= the budget_sol of that slot, after any sequence of entries, DCA
\* fills, closes (also a close that receives no SOL) and /resetbudget commands
\* given while slots are open.
C40_CapitalWithinBudget ==
    mode = "pair" =>
        \A i \in Slots :
            /\ Budget(i).budget_sol >= 0
            /\ budgetsFile[i].budget_sol >= 0
            /\ WithinBudget(i)

\* the same statement for the runs in which the operator never resets the budgets
C40_WithoutReset ==
    (mode = "pair" /\ "resetbudget" \notin market.ops) =>
        \A i \in Slots :
            /\ Budget(i).budget_sol >= 0
            /\ budgetsFile[i].budget_sol >= 0
            /\ WithinBudget(i)

\* a slot closed for no SOL after all of its budget went into the trade
C40_BudgetLost ==
    /\ mode = "pair" /\ "resetbudget" \notin market.ops
    /\ \E i \in Slots : Budget(i).budget_sol = 0 /\ Budget(i).trade_count > 0

\* a budget below zero
C40_NegativeBudget == mode = "pair" /\ \E i \in Slots : Budget(i).budget_sol < 0

====
